---- MODULE Spec2Model ----
(***************************************************************************)
(* Model of the client SDK of the spl-token-bonding program                *)
(* (packages/spl-token-bonding/src/index.ts): the number conversions       *)
(* (toU128, toBN, toNumber), the curve configuration classes and the       *)
(* instruction builders of SplTokenBonding.                                *)
(*                                                                         *)
(* JavaScript values are modelled as what they are:                        *)
(*   - a BN is an unbounded natural, kept as a little-endian sequence of   *)
(*     limbs in base 2^15 (TLC's own integers are 32 bits wide);           *)
(*   - a number is an IEEE-754 double: a 53 bit significand m and an       *)
(*     exponent e (value m * 2^e), with round-to-nearest-even after every  *)
(*     operation, and the two values Infinity and NaN.                     *)
(***************************************************************************)
EXTENDS Integers, Sequences, FiniteSets, TLC

----------------------------------------------------------------------------
(* Unbounded naturals (the values of bn.js BN objects and of the           *)
(* significands of doubles).                                               *)

Base == 32768
LimbBits == 15

Max(a, b) == IF a >= b THEN a ELSE b
Min(a, b) == IF a <= b THEN a ELSE b

\* 2^k for k < LimbBits
Pow2(k) == <<1, 2, 4, 8, 16, 32, 64, 128, 256, 512, 1024, 2048, 4096, 8192,
             16384>>[k + 1]

\* a without its leading zero limbs
Norm(a) ==
    LET nz == {i \in 1..Len(a) : a[i] # 0}
    IN  IF nz = {} THEN <<>>
        ELSE SubSeq(a, 1, CHOOSE i \in nz : \A j \in nz : j <= i)

RECURSIVE Nat2Big(_)
Nat2Big(n) == IF n = 0 THEN <<>> ELSE <<n % Base>> \o Nat2Big(n \div Base)

Limb(a, i) == IF i <= Len(a) THEN a[i] ELSE 0

RECURSIVE AddC(_, _, _, _)
AddC(a, b, i, c) ==
    IF i > Max(Len(a), Len(b))
    THEN (IF c = 0 THEN <<>> ELSE <<c>>)
    ELSE LET s == Limb(a, i) + Limb(b, i) + c
         IN  <<s % Base>> \o AddC(a, b, i + 1, s \div Base)

BigAdd(a, b) ==
    IF a = <<>> THEN b ELSE IF b = <<>> THEN a ELSE AddC(a, b, 1, 0)

RECURSIVE SubC(_, _, _, _)
SubC(a, b, i, c) ==
    IF i > Len(a) THEN <<>>
    ELSE LET s == a[i] - Limb(b, i) - c
         IN  IF s < 0 THEN <<s + Base>> \o SubC(a, b, i + 1, 1)
                      ELSE <<s>> \o SubC(a, b, i + 1, 0)

\* a - b for a >= b
BigSub(a, b) == IF b = <<>> THEN a ELSE Norm(SubC(a, b, 1, 0))

\* the comparison of two naturals of the same length, at the highest limb
\* where they differ
CmpFrom(a, b) ==
    LET df == {i \in 1..Len(a) : a[i] # b[i]}
    IN  IF df = {} THEN 0
        ELSE LET i == CHOOSE i \in df : \A j \in df : j <= i
             IN  IF a[i] > b[i] THEN 1 ELSE -1

\* -1, 0, 1 as a < b, a = b, a > b
BigCmp(a, b) ==
    IF Len(a) > Len(b) THEN 1
    ELSE IF Len(a) < Len(b) THEN -1
    ELSE CmpFrom(a, b)

BigLeq(a, b) == BigCmp(a, b) <= 0
BigLt(a, b) == BigCmp(a, b) < 0

RECURSIVE MulSmallC(_, _, _, _)
MulSmallC(a, k, i, c) ==
    IF i > Len(a) THEN (IF c = 0 THEN <<>> ELSE <<c>>)
    ELSE LET s == a[i] * k + c
         IN  <<s % Base>> \o MulSmallC(a, k, i + 1, s \div Base)

\* a * k for 0 <= k < Base
MulSmall(a, k) ==
    IF k = 0 \/ a = <<>> THEN <<>> ELSE MulSmallC(a, k, 1, 0)

ShiftLimbs(a, n) == IF a = <<>> THEN <<>> ELSE [i \in 1..n |-> 0] \o a

RECURSIVE MulFrom(_, _, _)
MulFrom(a, b, i) ==
    IF i > Len(b) THEN <<>>
    ELSE BigAdd(ShiftLimbs(MulSmall(a, b[i]), i - 1), MulFrom(a, b, i + 1))

BigMul(a, b) ==
    IF a = <<>> \/ b = <<>> THEN <<>> ELSE MulFrom(a, b, 1)

\* a * 2^k
Shl(a, k) == ShiftLimbs(MulSmall(a, Pow2(k % LimbBits)), k \div LimbBits)

RECURSIVE DivSmallFrom(_, _, _, _)
DivSmallFrom(a, d, i, r) ==
    IF i = 0 THEN <<>>
    ELSE LET s == r * Base + a[i]
         IN  DivSmallFrom(a, d, i - 1, s % d) \o <<s \div d>>

\* floor(a / d) for 0 < d <= Base
DivSmall(a, d) == Norm(DivSmallFrom(a, d, Len(a), 0))

\* floor(a / 2^k)
Shr(a, k) ==
    LET n == k \div LimbBits
    IN  IF n >= Len(a) THEN <<>>
        ELSE DivSmall(SubSeq(a, n + 1, Len(a)), Pow2(k % LimbBits))

\* the number of bits of a limb
SmallBits(n) == IF n = 0 THEN 0
                ELSE CHOOSE k \in 1..LimbBits :
                         n < 2 * Pow2(k - 1) /\ Pow2(k - 1) <= n

\* number of bits of a (0 for zero)
BitLen(a) == IF a = <<>> THEN 0
             ELSE LimbBits * (Len(a) - 1) + SmallBits(a[Len(a)])

IsOdd(a) == a # <<>> /\ a[1] % 2 = 1

\* bit i (from 0) of a
Bit(a, i) == (Limb(a, (i \div LimbBits) + 1) \div Pow2(i % LimbBits)) % 2

\* One digit of the long division of r by b (Knuth's algorithm D): b has n
\* limbs and its top bit set, r < b * Base.  The estimate from the top two
\* limbs of r is at most two above the digit.
DivEstimate(r, b) ==
    Min(Base - 1,
        (Limb(r, Len(b) + 1) * Base + Limb(r, Len(b))) \div b[Len(b)])

DivCorrect(r, b, est) ==
    IF BigLeq(MulSmall(b, est), r) THEN est
    ELSE IF BigLeq(MulSmall(b, est - 1), r) THEN est - 1
    ELSE est - 2

DivDigit(r, b) == DivCorrect(r, b, DivEstimate(r, b))

\* the quotient q with the digit d below it, and what d leaves of r
DivStep(q, r, b, d) ==
    [q |-> Norm(<<d>> \o q), r |-> BigSub(r, MulSmall(b, d))]

\* One step of the long division by b: from the quotient and remainder up
\* of the limbs above, those with the limb ai brought down.
DivLimb(up, ai, b) ==
    IF up.r = <<>> /\ ai = 0
    THEN [q |-> ShiftLimbs(up.q, 1), r |-> <<>>]
    ELSE DivStep(up.q, <<ai>> \o up.r, b, DivDigit(<<ai>> \o up.r, b))

\* Long division, one limb at a time from the top: quotient and remainder
\* of the limbs i..Len(a) of a by b (b with its top bit set).
RECURSIVE DivFrom(_, _, _)
DivFrom(a, b, i) ==
    IF i > Len(a) THEN [q |-> <<>>, r |-> <<>>]
    ELSE DivLimb(DivFrom(a, b, i + 1), a[i], b)

\* the division of a * k by b * k, as the division of a by b
DivUnshift(dm, k) == [q |-> dm.q, r |-> DivSmall(dm.r, k)]
DivShifted(a, b, k) ==
    DivUnshift(DivFrom(MulSmall(a, k), MulSmall(b, k), 1), k)

\* [q, r] with a = q * b + r, 0 <= r < b, for b > 0: both are shifted left
\* until the top bit of b is set, which leaves the quotient as it is
BigDivMod(a, b) ==
    IF BigLt(a, b) THEN [q |-> <<>>, r |-> a]
    ELSE DivShifted(a, b, Pow2(LimbBits - SmallBits(b[Len(b)])))

BigOne == <<1>>

\* 10^d
RECURSIVE Pow10(_)
Pow10(d) ==
    IF d <= 9
    THEN Nat2Big(<<1, 10, 100, 1000, 10000, 100000, 1000000, 10000000,
                   100000000, 1000000000>>[d + 1])
    ELSE BigMul(Nat2Big(1000000000), Pow10(d - 9))

\* the natural written by a sequence of decimal digits (by halves)
RECURSIVE FromDigitsIn(_, _, _)
FromDigitsIn(ds, i, j) ==
    IF i > j THEN <<>>
    ELSE IF i = j THEN Nat2Big(ds[i])
    ELSE BigAdd(BigMul(FromDigitsIn(ds, i, (i + j) \div 2),
                       Pow10(j - ((i + j) \div 2))),
                FromDigitsIn(ds, ((i + j) \div 2) + 1, j))

FromDigits(ds) == FromDigitsIn(ds, 1, Len(ds))

----------------------------------------------------------------------------
(* JavaScript numbers: IEEE-754 doubles.  A finite double is              *)
(* s * m * 2^e with s the sign, and m of exactly 53 bits (or zero, with   *)
(* e = 0), so equal values have equal representations.  Exponent overflow *)
(* and subnormals do not arise for the magnitudes used here.              *)

MantBits == 53

FZero == [k |-> "num", s |-> 1, m |-> <<>>, e |-> 0]
FInf(s) == [k |-> "inf", s |-> s, m |-> <<>>, e |-> 0]
FNaN == [k |-> "nan", s |-> 1, m |-> <<>>, e |-> 0]

IsFinite(x) == x.k = "num"
IsZero(x) == x.k = "num" /\ x.m = <<>>

\* s * q * 2^e for a q of MantBits bits, or of one more after a carry
Normal(s, q, e) ==
    IF BitLen(q) > MantBits
    THEN [k |-> "num", s |-> s, m |-> Shr(q, 1), e |-> e + 1]
    ELSE [k |-> "num", s |-> s, m |-> q, e |-> e]

\* whether q goes up: c compares what was cut off with half a unit
RoundsUp(q, c, sticky) == c > 0 \/ (c = 0 /\ (sticky \/ IsOdd(q)))

\* m cut by sh bits to q, rounded
RoundCut(s, m, e, sticky, sh, q) ==
    Normal(s,
           IF RoundsUp(q, BigCmp(BigSub(m, Shl(q, sh)), Shl(BigOne, sh - 1)),
                       sticky)
           THEN BigAdd(q, BigOne) ELSE q,
           e + sh)

RoundBits(s, m, e, sticky, L) ==
    IF L = 0 THEN FZero
    ELSE IF L <= MantBits
    THEN [k |-> "num", s |-> s, m |-> Shl(m, MantBits - L),
          e |-> e - (MantBits - L)]
    ELSE RoundCut(s, m, e, sticky, L - MantBits, Shr(m, L - MantBits))

\* The double nearest to s * (m + f) * 2^e, where 0 <= f < 1 and f > 0 iff
\* sticky; ties go to the even significand.  With sticky, m has more than
\* MantBits bits.
Round(s, m, e, sticky) == RoundBits(s, m, e, sticky, BitLen(m))

RoundQuotient(s, dm, e) == Round(s, dm.q, e, dm.r # <<>>)

RatShifted(s, num, den, sh) ==
    RoundQuotient(s, BigDivMod(Shl(num, sh), den), 0 - sh)

\* The double nearest to s * num / den (den > 0).
RatToDouble(s, num, den) ==
    IF num = <<>> THEN FZero
    ELSE RatShifted(s, num, den,
                    Max(0, MantBits + 3 + BitLen(den) - BitLen(num)))

Scale(x, n) == IF IsZero(x) THEN x ELSE [x EXCEPT !.e = @ + n]

\* The double of a natural (exact below 2^53).
FromBig(b) == Round(1, b, 0, FALSE)
FromNat(n) == FromBig(Nat2Big(n))

\* The double a decimal literal n * 10^(-d) denotes.
Dec(n, d) == RatToDouble(1, Nat2Big(n), Pow10(d))

\* 1 = 2^52 * 2^(-52)
FOne == [k |-> "num", s |-> 1, m |-> <<0, 0, 0, 128>>, e |-> -52]

FNeg(x) == IF x.k = "nan" \/ IsZero(x) THEN x ELSE [x EXCEPT !.s = 0 - @]

FMul(x, y) ==
    IF x.k = "nan" \/ y.k = "nan" THEN FNaN
    ELSE IF x.k = "inf" \/ y.k = "inf"
    THEN (IF IsZero(x) \/ IsZero(y) THEN FNaN ELSE FInf(x.s * y.s))
    ELSE Round(x.s * y.s, BigMul(x.m, y.m), x.e + y.e, FALSE)

FDiv(x, y) ==
    IF x.k = "nan" \/ y.k = "nan" THEN FNaN
    ELSE IF x.k = "inf" THEN (IF y.k = "inf" THEN FNaN ELSE FInf(x.s * y.s))
    ELSE IF y.k = "inf" THEN FZero
    ELSE IF IsZero(y) THEN (IF IsZero(x) THEN FNaN ELSE FInf(x.s))
    ELSE Scale(RatToDouble(x.s * y.s, x.m, y.m), x.e - y.e)

\* sx * ax * 2^e + sy * ay * 2^e, where c compares ax with ay
FAddSigned(sx, ax, sy, ay, e, c) ==
    Round(IF sx = sy \/ c > 0 THEN sx ELSE sy,
          IF sx = sy THEN BigAdd(ax, ay)
          ELSE IF c >= 0 THEN BigSub(ax, ay) ELSE BigSub(ay, ax),
          e, FALSE)

FAddAligned(sx, ax, sy, ay, e) ==
    FAddSigned(sx, ax, sy, ay, e, BigCmp(ax, ay))

FAdd(x, y) ==
    IF x.k = "nan" \/ y.k = "nan" THEN FNaN
    ELSE IF x.k = "inf"
    THEN (IF y.k = "inf" /\ y.s # x.s THEN FNaN ELSE x)
    ELSE IF y.k = "inf" THEN y
    ELSE IF IsZero(x) THEN y
    ELSE IF IsZero(y) THEN x
    ELSE FAddAligned(x.s, Shl(x.m, x.e - Min(x.e, y.e)),
                     y.s, Shl(y.m, y.e - Min(x.e, y.e)), Min(x.e, y.e))

FSub(x, y) == FAdd(x, FNeg(y))

\* The integer part n of a finite x >= 0 and whether a fraction was cut
IntCut(n, x) == [n |-> n, frac |-> Shl(n, 0 - x.e) # x.m]

IntPart(x) ==
    IF x.e >= 0 THEN [n |-> Shl(x.m, x.e), frac |-> FALSE]
    ELSE IntCut(Shr(x.m, 0 - x.e), x)

\* Math.floor and Math.ceil of a number x >= 0 (Infinity and NaN are kept)
MathFloor(x) ==
    IF ~IsFinite(x) THEN x ELSE FromBig(IntPart(x).n)

CeilOf(ip) == FromBig(IF ip.frac THEN BigAdd(ip.n, BigOne) ELSE ip.n)

MathCeil(x) == IF ~IsFinite(x) THEN x ELSE CeilOf(IntPart(x))

\* Math.pow(10, d) for the decimals of a mint (exact: 10^d < 2^53)
MathPow10(d) == FromBig(Pow10(d))

----------------------------------------------------------------------------
(* Values shared by the SDK functions.                                     *)

Null == "null"            \* a null or undefined key or flag
NoError == "ok"

\* An argument of type BN | number, or undefined
NumArg(x) == [t |-> "number", v |-> x]
BNArg(b) == [t |-> "BN", v |-> b]
Undefined == [t |-> "undefined", v |-> <<>>]

\* The denominator of a royalty percentage, the largest u32:
\* 4294967295 = 3 * 2^30 + 32767 * 2^15 + 32767
U32Max == <<32767, 32767, 3>>

\* 2^53 = 256 * 2^45: new BN(number) asserts that its argument is below it
TwoPow53 == <<0, 0, 0, 256>>

BelowTwoPow53(n) ==
    IF BigLt(n, TwoPow53) THEN [err |-> NoError, v |-> n]
    ELSE [err |-> "Assertion failed", v |-> <<>>]

\* new BN(x) for a number x >= 0 that Math.floor or Math.ceil returned:
\* bn.js asserts number < 0x20000000000000, which Infinity and NaN fail too.
NewBN(x) ==
    IF ~IsFinite(x) THEN [err |-> "Assertion failed", v |-> <<>>]
    ELSE BelowTwoPow53(IntPart(x).n)

\* asDecimal of ./curves: the fraction a stored u32 royalty numerator denotes
asDecimal(pct) == FDiv(FromBig(pct), FromBig(U32Max))

\* percent of spl-utils: the u32 numerator of a percentage from 0 to 100
\* (undefined is passed through)
percent(p) ==
    IF p.t = "undefined" THEN Undefined
    ELSE NumArg(MathFloor(FMul(FDiv(p.v, FromNat(100)), FromBig(U32Max))))

\* the whole tokens q and the fraction r / 10^decimals
WholeAndFraction(dm, decimals) ==
    FAdd(FromBig(dm.q), FDiv(FromBig(dm.r), FromBig(Pow10(decimals))))

\* amountAsNum of ./curves: a raw token amount as a number of whole tokens
amountAsNum(amount, decimals) ==
    WholeAndFraction(BigDivMod(amount, Pow10(decimals)), decimals)

\* toNumber(numberOrBn, mint)
toNumber(numberOrBn, decimals) ==
    IF numberOrBn.t = "BN" THEN amountAsNum(numberOrBn.v, decimals)
    ELSE numberOrBn.v

\* toBN(numberOrBn, mint): [err, v]
toBN(numberOrBn, decimals) ==
    IF numberOrBn.t = "BN" THEN [err |-> NoError, v |-> numberOrBn.v]
    ELSE NewBN(MathCeil(FMul(numberOrBn.v, MathPow10(decimals))))

\* JavaScript truthiness of an optional BN | number argument
Truthy(x) ==
    \/ x.t = "BN"
    \/ (x.t = "number" /\ x.v.k # "nan" /\ ~IsZero(x.v))

----------------------------------------------------------------------------
(* Number.prototype.toString (ECMAScript Number::toString, radix 10) and   *)
(* toU128.  A string is a sequence of one-character strings.               *)

DigitChars == <<"0", "1", "2", "3", "4", "5", "6", "7", "8", "9">>
DigitChar(d) == DigitChars[d + 1]
IsDigitChar(c) == \E i \in 1..10 : DigitChars[i] = c
DigitOf(c) == (CHOOSE i \in 1..10 : DigitChars[i] = c) - 1

\* digit j (from 0, the units) of a natural
DigitAt(a, j) == Limb(BigDivMod(BigDivMod(a, Pow10(j)).q, <<10>>).r, 1)

\* the number of decimal digits of a natural (0 for zero): 10^(k-1) <= a
\* < 10^k, and k is within one of BitLen * log10(2)
NumDigits(a) ==
    IF a = <<>> THEN 0
    ELSE IF BigLt(a, Pow10((BitLen(a) * 30103) \div 100000))
    THEN (BitLen(a) * 30103) \div 100000
    ELSE ((BitLen(a) * 30103) \div 100000) + 1

DigitsOf(a, k) == [i \in 1..k |-> DigitAt(a, k - i)]

\* the decimal digits of a natural, most significant first (<<>> for 0)
BigDigits(a) == DigitsOf(a, NumDigits(a))

\* the decimal digits of a small natural, at least one
RECURSIVE SmallDigits(_)
SmallDigits(n) ==
    IF n < 10 THEN <<n>> ELSE SmallDigits(n \div 10) \o <<n % 10>>

Zeros(n) == [i \in 1..n |-> 0]

\* x = num / den for a finite x > 0
RatNum(x) == IF x.e >= 0 THEN Shl(x.m, x.e) ELSE x.m
RatDen(x) == IF x.e >= 0 THEN BigOne ELSE Shl(BigOne, 0 - x.e)

\* floor and remainder of (num / den) * 10^p, p of either sign
ScaledDivMod(num, den, p) ==
    BigDivMod(IF p >= 0 THEN BigMul(num, Pow10(p)) ELSE num,
              IF p >= 0 THEN den ELSE BigMul(den, Pow10(0 - p)))

\* the double nearest to s * 10^p
DecToDouble(s, p) ==
    RatToDouble(1, IF p >= 0 THEN BigMul(s, Pow10(p)) ELSE s,
                IF p >= 0 THEN BigOne ELSE Pow10(0 - p))

\* the n with 10^(n-1) <= x < 10^n, searched upward from a lower bound
RECURSIVE DecExponentFrom(_, _)
DecExponentFrom(x, n) ==
    IF ScaledDivMod(RatNum(x), RatDen(x), 0 - n).q = <<>> THEN n
    ELSE DecExponentFrom(x, n + 1)

\* 2^(b-1) <= x < 2^b for b = x.e + 53, and log10(2) > 0.30102
DecExponent(x) ==
    DecExponentFrom(x, (((x.e + MantBits - 1) * 30102) \div 100000) - 1)

MaxDigits == 17

\* whether the decimal s * 10^p reads back as x
ReadsBack(s, p, x) == s # <<>> /\ DecToDouble(s, p) = x

\* of the two neighbours lo and hi, the one that reads back as x, and the
\* closer one if both do
Neighbour(lo, hi, loOk, hiOk, hiCloser) ==
    IF loOk /\ (~hiOk \/ ~hiCloser) THEN [ok |-> TRUE, s |-> lo]
    ELSE IF hiOk THEN [ok |-> TRUE, s |-> hi]
    ELSE [ok |-> FALSE, s |-> <<>>]

\* dm is the division of x by 10^p as num / den
Nearest(x, p, dm, den) ==
    Neighbour(dm.q, BigAdd(dm.q, BigOne),
              ReadsBack(dm.q, p, x), ReadsBack(BigAdd(dm.q, BigOne), p, x),
              BigLt(den, MulSmall(dm.r, 2)))

\* The candidates with k digits for the shortest decimal that reads back as
\* x: the two neighbours lo and hi of x / 10^(n-k).
Candidate(x, n, k) ==
    Nearest(x, n - k, ScaledDivMod(RatNum(x), RatDen(x), k - n),
            IF k - n >= 0 THEN RatDen(x)
            ELSE BigMul(RatDen(x), Pow10(n - k)))

\* The least k in lo..hi that has a candidate, where hi has one: a decimal
\* of k digits that reads back as x still does with a zero appended, so
\* the search goes by halves.
RECURSIVE LeastDigits(_, _, _, _)
LeastDigits(x, n, lo, hi) ==
    IF lo = hi THEN lo
    ELSE IF Candidate(x, n, (lo + hi) \div 2).ok
    THEN LeastDigits(x, n, lo, (lo + hi) \div 2)
    ELSE LeastDigits(x, n, ((lo + hi) \div 2) + 1, hi)

ShortestOf(x, n, k) == [s |-> Candidate(x, n, k).s, n |-> n, k |-> k]

\* The shortest decimal that reads back as x: the k digits s and the
\* exponent n of Number::toString (x = s * 10^(n-k) to double precision),
\* for the least k that has one (17 digits always do).
ShortestFrom(x, n) == ShortestOf(x, n, LeastDigits(x, n, 1, MaxDigits))

\* hi may have carried into k + 1 digits (a power of ten)
Carried(r, ds) ==
    IF Len(ds) > r.k THEN [digits |-> <<1>>, n |-> r.n + 1]
    ELSE [digits |-> ds, n |-> r.n]

ShortestDigits(r) == Carried(r, BigDigits(r.s))

\* [digits, n]: the digits of s (no trailing zeros) and the exponent n
Shortest(x) == ShortestDigits(ShortestFrom(x, DecExponent(x)))

Chars(ds) == [i \in 1..Len(ds) |-> DigitChar(ds[i])]

\* the exponent part of a number in scientific notation
ExponentPart(n) ==
    <<"e", IF n - 1 >= 0 THEN "+" ELSE "-">>
    \o Chars(SmallDigits(IF n - 1 >= 0 THEN n - 1 ELSE 1 - n))

\* the k digits ds with the exponent n, as Number::toString writes them
Digits2String(ds, k, n) ==
    IF k <= n /\ n <= 21 THEN Chars(ds \o Zeros(n - k))
    ELSE IF 0 < n /\ n <= 21
    THEN Chars(SubSeq(ds, 1, n)) \o <<".">> \o Chars(SubSeq(ds, n + 1, k))
    ELSE IF -6 < n /\ n <= 0
    THEN <<"0", ".">> \o Chars(Zeros(0 - n) \o ds)
    ELSE Chars(<<ds[1]>>)
         \o (IF k = 1 THEN <<>> ELSE <<".">> \o Chars(SubSeq(ds, 2, k)))
         \o ExponentPart(n)

ShortestString(sh) == Digits2String(sh.digits, Len(sh.digits), sh.n)

\* Number::toString of a number x >= 0
NumberToString(x) ==
    IF x.k = "nan" THEN <<"N", "a", "N">>
    ELSE IF x.k = "inf" THEN <<"I", "n", "f", "i", "n", "i", "t", "y">>
    ELSE IF IsZero(x) THEN <<"0">>
    ELSE ShortestString(Shortest(x))

\* the index of the first "." of a string, or 0
DotAt(str) ==
    LET ds == {i \in 1..Len(str) : str[i] = "."}
    IN  IF ds = {} THEN 0 ELSE CHOOSE i \in ds : \A j \in ds : i <= j

SplitAt(str, d) ==
    IF d = 0 THEN [beforeDec |-> str, afteDec |-> <<>>]
    ELSE [beforeDec |-> SubSeq(str, 1, d - 1),
          afteDec |-> SubSeq(str, d + 1, Len(str))]

\* const [beforeDec, afteDec] = str.split("."): the first two pieces
\* (afteDec || "" is the empty string when there is no ".", and toString
\* gives at most one ".")
SplitDot(str) == SplitAt(str, DotAt(str))

AllDigits(str) == \A i \in 1..Len(str) : IsDigitChar(str[i])

\* Number(str) for the strings toString makes: "finite", "infinite" or
\* "nan".  A decimal literal is digits with an optional exponent part.
NumberOfString(str) ==
    IF str = <<"I", "n", "f", "i", "n", "i", "t", "y">> THEN "infinite"
    ELSE IF AllDigits(str) THEN "finite"
    ELSE IF \E i \in 2..(Len(str) - 2) :
               /\ str[i] = "e"
               /\ str[i + 1] \in {"+", "-"}
               /\ AllDigits(SubSeq(str, 1, i - 1))
               /\ AllDigits(SubSeq(str, i + 2, Len(str)))
    THEN "finite"
    ELSE "nan"

\* str.slice(0, n).padEnd(n, "0")
SlicePad(str, n) ==
    [i \in 1..n |-> IF i <= Len(str) THEN str[i] ELSE "0"]

Precision == 12

\* new BN(str) for a string in base 10: bn.js rejects a character that is
\* not a digit ("Invalid character"; older versions return a number that
\* has nothing to do with the string's value)
NewBNFromString(str) ==
    IF AllDigits(str)
    THEN [err |-> NoError,
          v |-> FromDigits([i \in 1..Len(str) |-> DigitOf(str[i])])]
    ELSE [err |-> "Invalid character", v |-> <<>>]

\* the BN of the pieces beforeDec and afteDec of the number's string
U128OfParts(parts) ==
    IF NumberOfString(parts.beforeDec) # "finite"
    THEN [err |-> NoError, v |-> <<>>]
    ELSE NewBNFromString(parts.beforeDec \o SlicePad(parts.afteDec, Precision))

\* toU128(num): [err, v]
toU128(num) ==
    IF num.t = "BN" THEN [err |-> NoError, v |-> num.v]
    ELSE U128OfParts(SplitDot(NumberToString(num.v)))

----------------------------------------------------------------------------
(* The pricing curve behind buy and sell (IPricingCurve of ./curves, made  *)
(* by fromCurve), as its specification describes it.  Amounts inside the   *)
(* curve are fixed-point naturals with 12 fractional decimal digits and    *)
(* every division truncates; a royalty percentage is its u32 numerator     *)
(* over 4294967295.  The shape is Power with c = 1, b = 0, pow = 1,        *)
(* frac = 1 (the ExponentialCurveConfig defaults): price = supply.         *)

FixedOne == Pow10(Precision)

\* a number >= 0 as a fixed-point natural (truncated), and back
ToFixed(x) == ScaledDivMod(RatNum(x), RatDen(x), Precision).q
FromFixed(f) == RatToDouble(1, f, FixedOne)
FromFixedAll(fs) == [i \in 1..Len(fs) |-> FromFixed(fs[i])] \o <<>>

\* RoyaltyAdjuster: raw / (1 - pct) and raw * (1 - pct), for pct < 100%
RoyaltyDivide(raw, pct) ==
    BigDivMod(BigMul(raw, U32Max), BigSub(U32Max, pct)).q
RoyaltyMultiply(raw, pct) ==
    BigDivMod(BigMul(raw, BigSub(U32Max, pct)), U32Max).q

BigMin(a, b) == IF BigLt(a, b) THEN a ELSE b
BigMax(a, b) == IF BigLt(a, b) THEN b ELSE a

\* (hi^2 - lo^2) / 2 in fixed point
HalfSquares(lo, hi) ==
    BigDivMod(BigSub(BigMul(hi, hi), BigMul(lo, lo)),
              MulSmall(FixedOne, 2)).q

SignedArea(up, v) == [s |-> IF up \/ v = <<>> THEN 1 ELSE -1, v |-> v]

\* CurveShape.integral(fromSupply, toSupply) of price = supply, signed:
\* (to^2 - from^2) / 2
integral(fromSupply, toSupply) ==
    SignedArea(BigLeq(fromSupply, toSupply),
               HalfSquares(BigMin(fromSupply, toSupply),
                           BigMax(fromSupply, toSupply)))

\* PricingCurve.buyTargetAmount(desiredTarget, buyBaseRoyaltyPct,
\* buyTargetRoyaltyPct) at a supply: [err, v], v a number
buyTargetAmount(supply, desiredTarget, basePct, targetPct) ==
    IF ~BigLt(targetPct, U32Max) \/ ~BigLt(basePct, U32Max)
    THEN [err |-> "InvalidRoyalty", v |-> FZero]
    ELSE [err |-> NoError,
          v |-> FromFixed(RoyaltyDivide(
                    integral(supply,
                             BigAdd(supply,
                                    RoyaltyDivide(ToFixed(desiredTarget),
                                                  targetPct))).v,
                    basePct))]

\* what burning the target amount burned pays, net of the base royalty
SellBurned(supply, burned, basePct) ==
    IF BigLt(supply, burned) THEN [err |-> "Overflow", v |-> FZero]
    ELSE [err |-> NoError,
          v |-> FromFixed(RoyaltyMultiply(
                    integral(BigSub(supply, burned), supply).v, basePct))]

\* PricingCurve.sellTargetAmount(targetIn, sellBaseRoyaltyPct,
\* sellTargetRoyaltyPct) at a supply: [err, v]
sellTargetAmount(supply, targetIn, basePct, targetPct) ==
    SellBurned(supply, RoyaltyMultiply(ToFixed(targetIn), targetPct), basePct)

\* RootFinder: the iteration budget N, and the estimates of the root of
\* x^2 = n for n >= supply^2 > 0, from the bracket that the tangent at the
\* supply point gives (which is not below the root)
RootIterations == 6

RootStep(n, x) == BigMin(DivSmall(BigAdd(x, BigDivMod(n, x).q), 2), x)

RECURSIVE RootFrom(_, _, _)
RECURSIVE RootNext(_, _, _)
RootFrom(n, x, k) ==
    IF k = 0 THEN <<>> ELSE RootNext(n, RootStep(n, x), k)
RootNext(n, z, k) ==
    IF z = <<>> THEN <<>> ELSE <<z>> \o RootFrom(n, z, k - 1)

RootFinder(n, supply) ==
    IF n = <<>> THEN <<>>
    ELSE RootFrom(n,
                  BigAdd(BigAdd(supply,
                             BigDivMod(BigSub(n, BigMul(supply, supply)),
                                       MulSmall(supply, 2)).q), BigOne),
                  RootIterations)

\* the square of the supply that a base amount (net of the base royalty)
\* buys up to
SupplyAfterBase(supply, baseIn, basePct) ==
    BigAdd(BigMul(supply, supply),
           BigMul(MulSmall(FixedOne, 2),
                  RoyaltyMultiply(ToFixed(baseIn), basePct)))

\* PricingCurve.buyWithBaseRootEstimates(baseIn, buyBaseRoyaltyPct)
buyWithBaseRootEstimates(supply, baseIn, basePct) ==
    FromFixedAll(RootFinder(SupplyAfterBase(supply, baseIn, basePct), supply))

\* what the last estimate est mints above the supply, net of the royalty
MintedUpTo(est, supply, targetPct) ==
    FromFixed(RoyaltyMultiply(BigSub(est[Len(est)], supply), targetPct))

\* PricingCurve.buyWithBaseAmount(baseIn, buyBaseRoyaltyPct,
\* buyTargetRoyaltyPct): the target the root finder's last estimate gives
buyWithBaseAmount(supply, baseIn, basePct, targetPct) ==
    MintedUpTo(RootFinder(SupplyAfterBase(supply, baseIn, basePct), supply),
               supply, targetPct)

BigSquare(a) == BigMul(a, a)

\* PricingCurve.buyTargetAmountRootEstimates(desiredTarget,
\* targetRoyaltyPct): [err, v], v the estimates as numbers
buyTargetAmountRootEstimates(supply, desiredTarget, targetPct) ==
    IF ~BigLt(targetPct, U32Max) THEN [err |-> "InvalidRoyalty", v |-> <<>>]
    ELSE [err |-> NoError,
          v |-> FromFixedAll(RootFinder(
                    BigSquare(BigAdd(supply,
                                     RoyaltyDivide(ToFixed(desiredTarget),
                                                   targetPct))),
                    supply))]

----------------------------------------------------------------------------
(* State.                                                                  *)

VARIABLES
    num,               \* the argument of the toU128 call under study
    curves,            \* TimeCurveConfig.curves: the entries [offset, curve]
    tokenBondingAcct,  \* the TokenBondingV0 account the calls are about
    ledger,            \* what the client reads from the chain: the accounts
                       \* that exist, the mints' decimals, the curve's supply
    res                \* what the last call returned or threw

vars == <<num, curves, tokenBondingAcct, ledger, res>>

NoCall == [op |-> "none"]

\* the wallet of the provider: the default payer, owner and authority
Wallet == "wallet"

Mints == {"base", "target", "wsol"}

\* an account with no royalties on the given base mint
PlainAcct(baseMint) ==
    [authority |-> Wallet, baseMint |-> baseMint, targetMint |-> "target",
     baseStorage |-> "baseStorage", curve |-> "curve",
     buyBaseRoyaltyPercentage |-> <<>>, buyTargetRoyaltyPercentage |-> <<>>,
     sellBaseRoyaltyPercentage |-> <<>>, sellTargetRoyaltyPercentage |-> <<>>,
     buyBaseRoyalties |-> "buyBaseRoyalties",
     buyTargetRoyalties |-> "buyTargetRoyalties",
     sellBaseRoyalties |-> "sellBaseRoyalties",
     sellTargetRoyalties |-> "sellTargetRoyalties",
     buyFrozen |-> FALSE, sellFrozen |-> FALSE]

\* a chain with the given accounts, decimals of the target and base mints
\* and supply of the target mint (in whole tokens); the wrapped SOL mint
\* has the 9 decimals of SOL
Chain(accounts, targetDecimals, baseDecimals, supply) ==
    [accounts |-> accounts,
     decimals |-> [m \in Mints |-> IF m = "target" THEN targetDecimals
                                   ELSE IF m = "base" THEN baseDecimals
                                   ELSE 9],
     supply |-> BigMul(Nat2Big(supply), FixedOne),
     wrappedSolMint |-> "wsol"]

NoChain == Chain({}, 0, 0, 0)

\* Token.getAssociatedTokenAddress(.., mint, owner)
AssociatedTokenAddress(mint, owner) == <<"ata", mint, owner>>

\* accountExists(account)
accountExists(account) == account \in ledger.accounts

\* the first error of a sequence of outcomes, in order
FirstErr(errs) ==
    LET bad == {i \in 1..Len(errs) : errs[i] # NoError}
    IN  IF bad = {} THEN NoError
        ELSE errs[CHOOSE i \in bad : \A j \in bad : i <= j]

\* a null field of an instruction's arguments
JsNull == [t |-> "null"]

\* the u32 numerator of n percent, as the chain stores it
Pct(n) == IntPart(percent(NumArg(FromNat(n))).v).n

\* an account with the royalties r = [buy base, buy target, sell base,
\* sell target], in percent
RoyaltyAcct(baseMint, r) ==
    [PlainAcct(baseMint) EXCEPT !.buyBaseRoyaltyPercentage = Pct(r[1]),
                                !.buyTargetRoyaltyPercentage = Pct(r[2]),
                                !.sellBaseRoyaltyPercentage = Pct(r[3]),
                                !.sellTargetRoyaltyPercentage = Pct(r[4])]

\* the wallet's associated token accounts of the two mints
WalletAccounts ==
    {AssociatedTokenAddress("base", Wallet),
     AssociatedTokenAddress("target", Wallet)}

----------------------------------------------------------------------------
(* toU128 on a range of numbers and BNs.                                   *)

MaxScale == 8

U128Digits == {0, 1, 15, 57, 105, 999, 123456789}

\* the numbers n * 10^(-d), two numbers of 22 and 23 digits, Infinity and
\* NaN, and BNs
U128Inputs ==
    {NumArg(Dec(n, d)) : n \in U128Digits, d \in 0..MaxScale}
    \cup {NumArg(FromBig(BigMul(Nat2Big(n), Pow10(21)))) : n \in {1, 15}}
    \cup {NumArg(FInf(1)), NumArg(FNaN)}
    \cup {BNArg(Nat2Big(n)) : n \in U128Digits}

InitU128 ==
    /\ num \in U128Inputs
    /\ curves = <<>>
    /\ tokenBondingAcct = PlainAcct("base")
    /\ ledger = NoChain
    /\ res = NoCall

\* toU128(num), once: the function is pure, a second call returns the same
ToU128 ==
    /\ res = NoCall
    /\ res' = [op |-> "toU128"] @@ toU128(num)
    /\ UNCHANGED <<num, curves, tokenBondingAcct, ledger>>

NextU128 == ToU128

SpecU128 == InitU128 /\ [][NextU128]_vars

----------------------------------------------------------------------------
(* TimeCurveConfig.                                                        *)

MaxCurves == 3
MaxOffset == 3
PrimitiveCurves == {"exp", "log"}

InitCurve ==
    /\ num = Undefined
    /\ curves = <<>>
    /\ tokenBondingAcct = PlainAcct("base")
    /\ ledger = NoChain
    /\ res = NoCall

\* addCurve without the check of the first offset
addCurveUnchecked(timeOffset, curve) ==
    /\ Len(curves) < MaxCurves
    /\ curves' = Append(curves, [curve |-> curve, offset |-> timeOffset])
    /\ res' = [op |-> "addCurve", timeOffset |-> timeOffset,
               err |-> NoError]
    /\ UNCHANGED <<num, tokenBondingAcct, ledger>>

\* addCurve(timeOffset, curve)
addCurve(timeOffset, curve) ==
    /\ Len(curves) < MaxCurves
    /\ IF Len(curves) = 0 /\ timeOffset # 0
       THEN /\ res' = [op |-> "addCurve", timeOffset |-> timeOffset,
                       err |-> "First time offset must be 0"]
            /\ UNCHANGED curves
       ELSE /\ curves' = Append(curves, [curve |-> curve, offset |-> timeOffset])
            /\ res' = [op |-> "addCurve", timeOffset |-> timeOffset,
                       err |-> NoError]
    /\ UNCHANGED <<num, tokenBondingAcct, ledger>>

\* toRawConfig(): the entries in order, each curve as its raw config
toRawConfig ==
    /\ res' = [op |-> "toRawConfig", err |-> NoError,
               timeV0 |-> [i \in 1..Len(curves) |->
                              [curve |-> <<"raw", curves[i].curve>>,
                               offset |-> curves[i].offset]]]
    /\ UNCHANGED <<num, curves, tokenBondingAcct, ledger>>

NextCurve ==
    \/ \E t \in 0..MaxOffset, c \in PrimitiveCurves : addCurve(t, c)
    \/ toRawConfig

SpecCurve == InitCurve /\ [][NextCurve]_vars

-----------------------------------------------------------------------------
(* The selection of a time-composite curve among the entries of a          *)
(* TimeCurveConfig.                                                        *)

\* the entries of the configuration whose offset is at most elapsed
Started(elapsed) == {i \in 1..Len(curves) : curves[i].offset <= elapsed}

\* the entry active at the elapsed time, counted from 0: the last entry
\* whose offset is at most elapsed, -1 when there is none
ActiveIndex(elapsed) ==
    IF Started(elapsed) = {} THEN -1
    ELSE (CHOOSE i \in Started(elapsed) : \A j \in Started(elapsed) : j <= i) - 1

\* activeShape(elapsedSeconds)
activeShape(elapsed) ==
    /\ res' = [op |-> "activeShape", elapsed |-> elapsed,
               index |-> ActiveIndex(elapsed),
               err |-> IF ActiveIndex(elapsed) < 0 THEN "CurveUndefined"
                       ELSE NoError]
    /\ UNCHANGED <<num, curves, tokenBondingAcct, ledger>>

\* the offsets given to addCurve, and the times of a selection
CompositeOffsets == (0..MaxOffset) \cup {100, 200}
ElapsedTimes == CompositeOffsets \cup {50, 150, 250}

NextComposite ==
    \/ \E t \in CompositeOffsets, c \in PrimitiveCurves : addCurve(t, c)
    \/ \E t \in ElapsedTimes : activeShape(t)

SpecComposite == InitCurve /\ [][NextComposite]_vars

----------------------------------------------------------------------------
(* buyInstructions and sellInstructions.  The source authority and the     *)
(* payer are the wallet (their defaults).                                  *)

\* a temporary account that wraps the amount asked for and no more
TemporaryWSolAccountExact(payer, owner, mint, amt, newAccount) ==
    [err |-> amt.err,
     signer |-> newAccount,
     firstInstructions |->
         <<[name |-> "createAccount", fromPubkey |-> payer,
            newAccountPubkey |-> newAccount],
           [name |-> "initAccount", mint |-> mint,
            account |-> newAccount, owner |-> owner],
           [name |-> "buyWrappedSolV0",
            args |-> [amount |-> amt.v],
            source |-> owner, destination |-> newAccount]>>,
     lastInstructions |->
         <<[name |-> "closeAccount", account |-> newAccount,
            destination |-> owner, owner |-> owner],
           [name |-> "sellWrappedSolV0",
            args |-> [all |-> TRUE, amount |-> amt.v],
            source |-> newAccount, owner |-> owner,
            destination |-> newAccount]>>]

\* the account and the instructions around a trade for the amount amt of
\* wrapped SOL (what toBN returned)
TemporaryWSolAccount(payer, owner, mint, amt, newAccount) ==
    [err |-> amt.err,
     signer |-> newAccount,
     firstInstructions |->
         <<[name |-> "createAccount", fromPubkey |-> payer,
            newAccountPubkey |-> newAccount],
           [name |-> "initAccount", mint |-> mint,
            account |-> newAccount, owner |-> owner],
           [name |-> "buyWrappedSolV0",
            args |-> [amount |-> BigAdd(amt.v, BigOne)],
            source |-> owner, destination |-> newAccount]>>,
     lastInstructions |->
         <<[name |-> "sellWrappedSolV0",
            args |-> [all |-> TRUE, amount |-> amt.v],
            source |-> newAccount, owner |-> owner,
            destination |-> newAccount],
           [name |-> "closeAccount", account |-> newAccount,
            destination |-> owner, owner |-> owner]>>]

\* createTemporaryWSolAccount({payer, owner, amount}): [err, signer,
\* firstInstructions, lastInstructions]
createTemporaryWSolAccount(payer, owner, amount) ==
    TemporaryWSolAccount(payer, owner, ledger.wrappedSolMint,
        toBN(NumArg(amount), ledger.decimals[ledger.wrappedSolMint]),
        "newAccount")

\* Token.createAssociatedTokenAccountInstruction(.., mint, account, owner,
\* payer)
createAssociatedTokenAccount(mint, account, owner, payer) ==
    [name |-> "createAssociatedTokenAccount", mint |-> mint,
     account |-> account, owner |-> owner, payer |-> payer]

\* the estimates sent last first
MappedU128Reversed(each) ==
    [err |-> FirstErr([i \in 1..Len(each) |-> each[i].err]),
     v |-> [t |-> "array",
            v |-> [i \in 1..Len(each) |-> each[Len(each) + 1 - i].v]]]

\* the outcomes [err, v] of toU128 on each estimate, as one outcome
MappedU128(each) ==
    [err |-> FirstErr([i \in 1..Len(each) |-> each[i].err]),
     v |-> [t |-> "array", v |-> [i \in 1..Len(each) |-> each[i].v]]]

\* rootEstimates?.map(toU128): [err, v]
MapToU128(rootEstimates) ==
    IF rootEstimates.t # "array" THEN [err |-> NoError, v |-> Undefined]
    ELSE MappedU128([i \in 1..Len(rootEstimates.v) |->
                        toU128(NumArg(rootEstimates.v[i]))] \o <<>>)

\* targetMint.decimals and baseMint.decimals
TargetDecimals == ledger.decimals[tokenBondingAcct.targetMint]
BaseDecimals == ledger.decimals[tokenBondingAcct.baseMint]

\* desiredTargetAmountNum * (1 / (1 - asDecimal(buyTargetRoyaltyPercentage)))
NeededAmount(desiredTargetAmountNum) ==
    FMul(desiredTargetAmountNum,
         FDiv(FOne, FSub(FOne,
                  asDecimal(tokenBondingAcct.buyTargetRoyaltyPercentage))))

\* curve.buyTargetAmount(desiredTargetAmountNum, buyBaseRoyaltyPercentage,
\* buyTargetRoyaltyPercentage)
CurveAmount(desiredTargetAmountNum) ==
    buyTargetAmount(ledger.supply, desiredTargetAmountNum,
                    tokenBondingAcct.buyBaseRoyaltyPercentage,
                    tokenBondingAcct.buyTargetRoyaltyPercentage)

\* a maximum price that subtracts the slippage instead of adding it
MaxPriceBelow(curveAmount, slippage) ==
    FMul(curveAmount, FSub(FOne, slippage))

\* maxPrice = curveAmount * (1 + slippage)
MaxPrice(curveAmount, slippage) == FMul(curveAmount, FAdd(FOne, slippage))

\* new BN(Math.floor(neededAmount * Math.pow(10, targetMint.decimals)))
TargetAmount(neededAmount) ==
    NewBN(MathFloor(FMul(neededAmount, MathPow10(TargetDecimals))))

\* the block without the curve's own checks: only the two conversions to
\* BN can fail
BuyTargetArgsUnchecked(curveErr, estimates, targetAmount, maximumPrice, maxPrice) ==
    [err |-> FirstErr(<<targetAmount.err, maximumPrice.err>>),
     buyTargetAmount |-> [t |-> "object",
                          targetAmount |-> targetAmount.v,
                          maximumPrice |-> maximumPrice.v],
     rootEstimates |-> [t |-> "array", v |-> estimates.v],
     maxPrice |-> maxPrice]

\* what the block leaves: the outcomes of its four calls in order, the
\* argument buyTargetAmount, rootEstimates and maxPrice
BuyTargetArgs(curveErr, estimates, targetAmount, maximumPrice, maxPrice) ==
    [err |-> FirstErr(<<curveErr, estimates.err, targetAmount.err,
                        maximumPrice.err>>),
     buyTargetAmount |-> [t |-> "object",
                          targetAmount |-> targetAmount.v,
                          maximumPrice |-> maximumPrice.v],
     rootEstimates |-> [t |-> "array", v |-> estimates.v],
     maxPrice |-> maxPrice]

BuyTargetPriced(desiredTargetAmountNum, curveErr, maxPrice) ==
    BuyTargetArgs(curveErr,
        buyTargetAmountRootEstimates(ledger.supply, desiredTargetAmountNum,
            tokenBondingAcct.buyTargetRoyaltyPercentage),
        TargetAmount(NeededAmount(desiredTargetAmountNum)),
        toBN(NumArg(maxPrice), BaseDecimals),
        maxPrice)

BuyTargetQuoted(desiredTargetAmountNum, curveAmount, slippage) ==
    BuyTargetPriced(desiredTargetAmountNum, curveAmount.err,
                    MaxPrice(curveAmount.v, slippage))

BuyTargetOf(desiredTargetAmountNum, slippage) ==
    BuyTargetQuoted(desiredTargetAmountNum,
                    CurveAmount(desiredTargetAmountNum), slippage)

\* if (desiredTargetAmount) { .. }: [err, buyTargetAmount, rootEstimates,
\* maxPrice]
BuyTargetBlock(a) ==
    IF ~Truthy(a.desiredTargetAmount)
    THEN [err |-> NoError, buyTargetAmount |-> JsNull,
          rootEstimates |-> JsNull, maxPrice |-> FZero]
    ELSE BuyTargetOf(toNumber(a.desiredTargetAmount, TargetDecimals),
                     a.slippage)

\* min = curve.buyWithBaseAmount(..) * (1 - slippage)
MinTarget(baseAmountNum, slippage) ==
    FMul(buyWithBaseAmount(ledger.supply, baseAmountNum,
             tokenBondingAcct.buyBaseRoyaltyPercentage,
             tokenBondingAcct.buyTargetRoyaltyPercentage),
         FSub(FOne, slippage))

BuyBaseArgs(baseAmount, minimumTargetAmount, estimates, baseAmountNum) ==
    [err |-> FirstErr(<<baseAmount.err, minimumTargetAmount.err>>),
     buyWithBase |-> [t |-> "object",
                      baseAmount |-> baseAmount.v,
                      minimumTargetAmount |-> minimumTargetAmount.v],
     rootEstimates |-> [t |-> "array", v |-> estimates],
     maxPrice |-> baseAmountNum]

BuyBaseOf(a, baseAmountNum) ==
    BuyBaseArgs(toBN(a.baseAmount, BaseDecimals),
        NewBN(MathCeil(FMul(MinTarget(baseAmountNum, a.slippage),
                            MathPow10(TargetDecimals)))),
        buyWithBaseRootEstimates(ledger.supply, baseAmountNum,
            tokenBondingAcct.buyBaseRoyaltyPercentage),
        baseAmountNum)

\* if (baseAmount) { .. }: [err, buyWithBase, rootEstimates, maxPrice], the
\* last two as the block before left them when there is no base amount
BuyBaseBlock(a, before) ==
    IF ~Truthy(a.baseAmount)
    THEN [err |-> NoError, buyWithBase |-> JsNull,
          rootEstimates |-> before.rootEstimates,
          maxPrice |-> before.maxPrice]
    ELSE BuyBaseOf(a, toNumber(a.baseAmount, BaseDecimals))

\* a temporary wrapped SOL account as the source or destination of a trade
ThroughWSol(tmp) ==
    [err |-> tmp.err, account |-> <<tmp.signer>>, signers |-> <<tmp.signer>>,
     firstInstructions |-> tmp.firstInstructions,
     lastInstructions |-> tmp.lastInstructions]

\* if (!source) { .. } of buyInstructions: [err, account, signers,
\* firstInstructions, lastInstructions]
BuySource(a, maxPrice) ==
    IF a.source # Null
    THEN [err |-> NoError, account |-> <<a.source>>, signers |-> <<>>,
          firstInstructions |-> <<>>, lastInstructions |-> <<>>]
    ELSE IF tokenBondingAcct.baseMint = ledger.wrappedSolMint
    THEN ThroughWSol(createTemporaryWSolAccount(Wallet, Wallet, maxPrice))
    ELSE [err |-> IF accountExists(AssociatedTokenAddress(
                         tokenBondingAcct.baseMint, Wallet))
                  THEN NoError ELSE "Source account does not exist",
          account |-> AssociatedTokenAddress(tokenBondingAcct.baseMint,
                                             Wallet),
          signers |-> <<>>,
          firstInstructions |-> <<>>, lastInstructions |-> <<>>]

\* what a call that throws leaves: no instructions and no signers
Thrown(op, a, err) ==
    [op |-> op, args |-> a, err |-> err, instructions |-> <<>>,
     signers |-> <<>>]

\* if (!destination) { .. } of buyInstructions: the destination and the
\* instruction that creates it
BuyDestination(a) ==
    IF a.destination # Null
    THEN [account |-> <<a.destination>>, instructions |-> <<>>]
    ELSE [account |-> AssociatedTokenAddress(tokenBondingAcct.targetMint,
                                             Wallet),
          instructions |->
              IF accountExists(AssociatedTokenAddress(
                     tokenBondingAcct.targetMint, Wallet))
              THEN <<>>
              ELSE <<createAssociatedTokenAccount(
                         tokenBondingAcct.targetMint,
                         AssociatedTokenAddress(tokenBondingAcct.targetMint,
                                                Wallet),
                         Wallet, Wallet)>>]

\* the instructions and signers of a buy whose parts all succeeded
BuyResult(a, dest, target, base, src, estimates) ==
    IF estimates.err # NoError THEN Thrown("buy", a, estimates.err)
    ELSE [op |-> "buy", args |-> a, err |-> NoError,
          signers |-> src.signers,
          instructions |->
              dest.instructions \o src.firstInstructions
              \o <<[name |-> "buyV0",
                    args |-> [buyTargetAmount |-> target.buyTargetAmount,
                              buyWithBase |-> base.buyWithBase,
                              rootEstimates |-> estimates.v],
                    source |-> src.account,
                    destination |-> dest.account]>>
              \o src.lastInstructions]

BuyFromSource(a, target, base, src) ==
    IF src.err # NoError THEN Thrown("buy", a, src.err)
    ELSE BuyResult(a, BuyDestination(a), target, base, src,
                   MapToU128(base.rootEstimates))

BuyAfterBase(a, target, base) ==
    IF base.err # NoError THEN Thrown("buy", a, base.err)
    ELSE BuyFromSource(a, target, base, BuySource(a, base.maxPrice))

BuyAfterTarget(a, target) ==
    IF target.err # NoError THEN Thrown("buy", a, target.err)
    ELSE BuyAfterBase(a, target, BuyBaseBlock(a, target))

\* buyInstructions({tokenBonding, source, destination, desiredTargetAmount,
\* baseAmount, slippage}): what it returns or throws
buyInstructionsResult(a) == BuyAfterTarget(a, BuyTargetBlock(a))

\* the call reads the chain and writes nothing: one call from each state of
\* the chain shows all it can return
buyInstructions(a) ==
    /\ res = NoCall
    /\ res' = buyInstructionsResult(a)
    /\ UNCHANGED <<num, curves, tokenBondingAcct, ledger>>

\* if (!destination) { .. } of sellInstructions: [err, account, signers,
\* firstInstructions, lastInstructions]
SellDestination(a) ==
    IF a.destination # Null
    THEN [err |-> NoError, account |-> <<a.destination>>,
          signers |-> <<>>, firstInstructions |-> <<>>,
          lastInstructions |-> <<>>]
    ELSE IF tokenBondingAcct.baseMint = ledger.wrappedSolMint
    THEN ThroughWSol(createTemporaryWSolAccount(Wallet, Wallet, FZero))
    ELSE [err |-> NoError,
          account |-> AssociatedTokenAddress(tokenBondingAcct.baseMint,
                                             Wallet),
          signers |-> <<>>,
          firstInstructions |->
              IF accountExists(AssociatedTokenAddress(
                     tokenBondingAcct.baseMint, Wallet))
              THEN <<>>
              ELSE <<createAssociatedTokenAccount(
                         tokenBondingAcct.baseMint,
                         AssociatedTokenAddress(tokenBondingAcct.baseMint,
                                                Wallet),
                         Wallet, Wallet)>>,
          lastInstructions |-> <<>>]

\* if (!source) { .. } of sellInstructions: [err, account]
SellSource(a) ==
    IF a.source # Null THEN [err |-> NoError, account |-> <<a.source>>]
    ELSE [err |-> IF accountExists(AssociatedTokenAddress(
                         tokenBondingAcct.targetMint, Wallet))
                  THEN NoError ELSE "Source account does not exist",
          account |-> AssociatedTokenAddress(tokenBondingAcct.targetMint,
                                             Wallet)]

\* curve.sellTargetAmount(targetAmountNum, sellBaseRoyaltyPercentage,
\* sellTargetRoyaltyPercentage)
ReclaimedAmount(targetAmountNum) ==
    sellTargetAmount(ledger.supply, targetAmountNum,
                     tokenBondingAcct.sellBaseRoyaltyPercentage,
                     tokenBondingAcct.sellTargetRoyaltyPercentage)

\* Math.ceil(reclaimedAmount * (1 - slippage) * Math.pow(10, decimals))
MinPrice(reclaimedAmount, slippage, baseDecimals) ==
    MathCeil(FMul(FMul(reclaimedAmount, FSub(FOne, slippage)),
                  MathPow10(baseDecimals)))

\* the instructions and signers of a sell whose parts all succeeded
SellResult(a, src, dest, targetAmount, minimumPrice, mapped) ==
    IF mapped.err # NoError THEN Thrown("sell", a, mapped.err)
    ELSE [op |-> "sell", args |-> a, err |-> NoError,
          signers |-> dest.signers,
          instructions |->
              dest.firstInstructions
              \o <<[name |-> "sellV0",
                    args |-> [targetAmount |-> targetAmount.v,
                              minimumPrice |-> minimumPrice.v,
                              rootEstimates |-> mapped.v],
                    source |-> src.account,
                    destination |-> dest.account]>>
              \o dest.lastInstructions]

SellWith(a, src, dest, targetAmount, minimumPrice, estimates) ==
    IF FirstErr(<<targetAmount.err, minimumPrice.err, estimates.err>>)
           # NoError
    THEN Thrown("sell", a, FirstErr(<<targetAmount.err, minimumPrice.err,
                                      estimates.err>>))
    ELSE SellResult(a, src, dest, targetAmount, minimumPrice,
                    MapToU128([t |-> "array", v |-> estimates.v]))

SellReclaimed(a, src, dest, targetAmountNum, reclaimedAmount) ==
    IF reclaimedAmount.err # NoError
    THEN Thrown("sell", a, reclaimedAmount.err)
    ELSE SellWith(a, src, dest,
             toBN(a.targetAmount, TargetDecimals),
             NewBN(MinPrice(reclaimedAmount.v, a.slippage, BaseDecimals)),
             buyTargetAmountRootEstimates(ledger.supply, targetAmountNum,
                 tokenBondingAcct.sellTargetRoyaltyPercentage))

SellAmount(a, src, dest, targetAmountNum) ==
    SellReclaimed(a, src, dest, targetAmountNum,
                  ReclaimedAmount(targetAmountNum))

SellTo(a, src, dest) ==
    IF dest.err # NoError THEN Thrown("sell", a, dest.err)
    ELSE SellAmount(a, src, dest, toNumber(a.targetAmount, TargetDecimals))

SellFrom(a, src) ==
    IF src.err # NoError THEN Thrown("sell", a, src.err)
    ELSE SellTo(a, src, SellDestination(a))

\* a sell that does not look at sellFrozen
sellInstructionsUnfrozen(a) == SellFrom(a, SellSource(a))

\* sellInstructions({tokenBonding, source, destination, targetAmount,
\* slippage}): what it returns or throws
sellInstructionsResult(a) ==
    IF tokenBondingAcct.sellFrozen
    THEN Thrown("sell", a, "Sell is frozen on this bonding curve")
    ELSE SellFrom(a, SellSource(a))

\* as buyInstructions, the call writes nothing
sellInstructions(a) ==
    /\ res = NoCall
    /\ res' = sellInstructionsResult(a)
    /\ UNCHANGED <<num, curves, tokenBondingAcct, ledger>>

\* The accounts, chains and arguments that the trades are tried on.

\* royalties [buy base, buy target, sell base, sell target], in percent
TradeRoyalties ==
    {<<"base", <<0, 0, 0, 0>>>>, <<"base", <<5, 5, 5, 5>>>>,
     <<"base", <<0, 76, 0, 50>>>>, <<"base", <<0, 100, 0, 0>>>>,
     <<"base", <<100, 0, 0, 100>>>>,
     <<"wsol", <<0, 0, 0, 0>>>>, <<"wsol", <<5, 5, 5, 5>>>>}

TradeAccts ==
    {RoyaltyAcct(r[1], r[2]) : r \in TradeRoyalties}
    \cup {[PlainAcct("base") EXCEPT !.sellFrozen = TRUE]}

\* chains with a supply of 1000 tokens, by the decimals of the target and
\* base mints, with and without the wallet's token accounts
TradeSupplies == {1000}

TradeChains ==
    {Chain(WalletAccounts, d[1], d[2], sup) :
         d \in {<<0, 0>>, <<2, 9>>, <<9, 9>>}, sup \in TradeSupplies}
    \cup {Chain({}, 2, 9, sup) : sup \in TradeSupplies}

\* amounts: none, numbers and raw BN amounts
TradeAmounts ==
    {Undefined, NumArg(FZero), NumArg(FromNat(1)), NumArg(FromNat(395)),
     BNArg(Nat2Big(57))}

Slippages == {FZero, Dec(5, 2)}

BuyArgs ==
    {[source |-> k, destination |-> k, desiredTargetAmount |-> d,
      baseAmount |-> Undefined, slippage |-> sl] :
         k \in {Null, "given"}, d \in TradeAmounts, sl \in Slippages}
    \cup
    {[source |-> k, destination |-> k, desiredTargetAmount |-> d,
      baseAmount |-> NumArg(FromNat(105000)), slippage |-> sl] :
         k \in {Null, "given"}, d \in {Undefined, NumArg(FromNat(1))},
         sl \in Slippages}

SellArgs ==
    {[source |-> k, destination |-> k, targetAmount |-> t, slippage |-> sl] :
         k \in {Null, "given"},
         t \in {NumArg(FromNat(1)), NumArg(FromNat(395)), BNArg(Nat2Big(57))},
         sl \in Slippages}

InitTrade ==
    /\ num = Undefined
    /\ curves = <<>>
    /\ tokenBondingAcct \in TradeAccts
    /\ ledger \in TradeChains
    /\ res = NoCall

NextTrade ==
    \/ \E a \in BuyArgs : buyInstructions(a)
    \/ \E a \in SellArgs : sellInstructions(a)

SpecTrade == InitTrade /\ [][NextTrade]_vars

----------------------------------------------------------------------------
(* updateTokenBondingInstructions and updateTokenBonding.                  *)

\* an optional key or flag that was not given (null is a value of its own
\* for the authority)
Unset == "undefined"

\* percent(p) || current: the numerator sent for a royalty percentage
OrCurrent(pct, current) ==
    IF Truthy(pct) THEN IntPart(pct.v).n ELSE current

\* key || current
KeyOr(key, current) == IF key # Unset THEN key ELSE current

\* authority === null ? null : authority || tokenBondingAcct.authority
AuthorityOr(authority, current) ==
    IF authority = Null THEN Null ELSE KeyOr(authority, current)

\* typeof buyFrozen === "undefined" ? tokenBondingAcct.buyFrozen : buyFrozen
FrozenOr(buyFrozen, current) ==
    IF buyFrozen = Unset THEN current ELSE buyFrozen = "true"

\* the arguments of updateTokenBondingV0
UpdateTokenBondingV0Args(a) ==
    [buyBaseRoyaltyPercentage |->
         OrCurrent(percent(a.buyBaseRoyaltyPercentage),
                   tokenBondingAcct.buyBaseRoyaltyPercentage),
     buyTargetRoyaltyPercentage |->
         OrCurrent(percent(a.buyTargetRoyaltyPercentage),
                   tokenBondingAcct.buyTargetRoyaltyPercentage),
     sellBaseRoyaltyPercentage |->
         OrCurrent(percent(a.sellBaseRoyaltyPercentage),
                   tokenBondingAcct.sellBaseRoyaltyPercentage),
     sellTargetRoyaltyPercentage |->
         OrCurrent(percent(a.sellTargetRoyaltyPercentage),
                   tokenBondingAcct.sellTargetRoyaltyPercentage),
     tokenBondingAuthority |->
         AuthorityOr(a.authority, tokenBondingAcct.authority),
     buyFrozen |-> FrozenOr(a.buyFrozen, tokenBondingAcct.buyFrozen)]

\* the accounts of updateTokenBondingV0
UpdateTokenBondingV0Accounts(a) ==
    [tokenBonding |-> a.tokenBonding,
     authority |-> tokenBondingAcct.authority,
     baseMint |-> tokenBondingAcct.baseMint,
     targetMint |-> tokenBondingAcct.targetMint,
     buyTargetRoyalties |->
         KeyOr(a.buyTargetRoyalties, tokenBondingAcct.buyTargetRoyalties),
     buyBaseRoyalties |->
         KeyOr(a.buyBaseRoyalties, tokenBondingAcct.buyBaseRoyalties),
     sellTargetRoyalties |->
         KeyOr(a.sellTargetRoyalties, tokenBondingAcct.sellTargetRoyalties),
     sellBaseRoyalties |->
         KeyOr(a.sellBaseRoyalties, tokenBondingAcct.sellBaseRoyalties)]

\* an update that does not look at the authority
updateTokenBondingUnauthorized(a) ==
    [op |-> "updateTokenBondingInstructions", args |-> a,
     err |-> NoError, signers |-> <<>>,
     instructions |-> <<[name |-> "updateTokenBondingV0",
                         args |-> UpdateTokenBondingV0Args(a),
                         accounts |-> UpdateTokenBondingV0Accounts(a)]>>]

updateTokenBondingInstructionsResult(a) ==
    IF tokenBondingAcct.authority = Null
    THEN Thrown("updateTokenBondingInstructions", a,
                "Cannot update a token bonding account that has no authority")
    ELSE [op |-> "updateTokenBondingInstructions", args |-> a,
          err |-> NoError, signers |-> <<>>,
          instructions |-> <<[name |-> "updateTokenBondingV0",
                              args |-> UpdateTokenBondingV0Args(a),
                              accounts |-> UpdateTokenBondingV0Accounts(a)]>>]

updateTokenBondingInstructions(a) ==
    /\ res' = updateTokenBondingInstructionsResult(a)
    /\ UNCHANGED <<num, curves, tokenBondingAcct, ledger>>

\* the account after updateTokenBondingV0 has run on it
UpdatedAcct(ix) ==
    [tokenBondingAcct EXCEPT
         !.buyBaseRoyaltyPercentage = ix.args.buyBaseRoyaltyPercentage,
         !.buyTargetRoyaltyPercentage = ix.args.buyTargetRoyaltyPercentage,
         !.sellBaseRoyaltyPercentage = ix.args.sellBaseRoyaltyPercentage,
         !.sellTargetRoyaltyPercentage = ix.args.sellTargetRoyaltyPercentage,
         !.authority = ix.args.tokenBondingAuthority,
         !.buyFrozen = ix.args.buyFrozen,
         !.buyBaseRoyalties = ix.accounts.buyBaseRoyalties,
         !.buyTargetRoyalties = ix.accounts.buyTargetRoyalties,
         !.sellBaseRoyalties = ix.accounts.sellBaseRoyalties,
         !.sellTargetRoyalties = ix.accounts.sellTargetRoyalties]

\* sendInstructions on the result r of updateTokenBondingInstructions
SendUpdate(r) ==
    /\ res' = [r EXCEPT !.op = "updateTokenBonding"]
    /\ tokenBondingAcct' = IF r.err # NoError THEN tokenBondingAcct
                           ELSE UpdatedAcct(r.instructions[1])

updateTokenBonding(a) ==
    /\ SendUpdate(updateTokenBondingInstructionsResult(a))
    /\ UNCHANGED <<num, curves, ledger>>

\* a percentage argument: n percent, or nothing when n < 0
PctArg(n) == IF n < 0 THEN Undefined ELSE NumArg(FromNat(n))

\* the arguments with the royalties r (in percent, -1 for none), the new
\* royalties accounts, authority and frozen flag
UpdateArg(r, royalties, authority, buyFrozen) ==
    [tokenBonding |-> "tokenBonding",
     buyBaseRoyaltyPercentage |-> PctArg(r[1]),
     buyTargetRoyaltyPercentage |-> PctArg(r[2]),
     sellBaseRoyaltyPercentage |-> PctArg(r[3]),
     sellTargetRoyaltyPercentage |-> PctArg(r[4]),
     buyBaseRoyalties |-> royalties, buyTargetRoyalties |-> royalties,
     sellBaseRoyalties |-> royalties, sellTargetRoyalties |-> royalties,
     authority |-> authority, buyFrozen |-> buyFrozen]

UpdateRoyalties ==
    {<<-1, -1, -1, -1>>, <<0, 0, 0, 0>>, <<5, 5, 5, 5>>, <<-1, 50, -1, 0>>,
     <<100, -1, 0, -1>>}

UpdateArgs ==
    {UpdateArg(r, Unset, Unset, Unset) : r \in UpdateRoyalties}
    \cup {UpdateArg(<<-1, -1, -1, -1>>, Unset, Null, Unset),
          UpdateArg(<<-1, -1, -1, -1>>, "newRoyalties", "newAuthority",
                    "true"),
          UpdateArg(<<-1, -1, -1, -1>>, Unset, Unset, "false")}

InitUpdate ==
    /\ num = Undefined
    /\ curves = <<>>
    /\ tokenBondingAcct \in {RoyaltyAcct("base", <<0, 0, 0, 0>>),
                             RoyaltyAcct("base", <<5, 5, 5, 5>>)}
    /\ ledger = NoChain
    /\ res = NoCall

NextUpdate ==
    \/ \E a \in UpdateArgs : updateTokenBondingInstructions(a)
    \/ \E a \in UpdateArgs : updateTokenBonding(a)

SpecUpdate == InitUpdate /\ [][NextUpdate]_vars

----------------------------------------------------------------------------
(* createTokenBondingInstructions and createTokenBonding.                  *)

MaxBondings == 3

\* an optional small number (targetMintDecimals, index), or nothing
IntArg(n) == [t |-> "int", v |-> n]
NoInt == [t |-> "undefined", v |-> 0]

\* !x of an optional number x is false
TruthyInt(x) == x.t = "int" /\ x.v # 0

\* NATIVE_MINT
NativeMint == "native"

\* the keys Keypair.generate() hands out, in order
KeypairNames ==
    <<"keypair1", "keypair2", "keypair3", "keypair4", "keypair5",
      "keypair6", "keypair7", "keypair8">>

\* the account of a generated key
KeypairAccount(name) == <<"account", name>>

\* the keys already on chain
Generated ==
    Cardinality({i \in 1..Len(KeypairNames) :
                     accountExists(KeypairAccount(KeypairNames[i]))})

\* the k-th key generated by a call
Keypair(k) == KeypairNames[Generated + k]

\* new BN(index, 16, "le").toBuffer().copy(pad) on the two zero bytes of
\* pad: the bytes of index are read little-endian and written back
\* big-endian with no leading zero
IndexPad(index) ==
    IF index % 256 # 0 \/ index \div 256 = 0
    THEN <<index % 256, (index \div 256) % 256>>
    ELSE <<(index \div 256) % 256, 0>>

\* tokenBondingKey(targetMint, index): the address derived from the seeds
tokenBondingKey(targetMint, index) ==
    <<"token-bonding", targetMint, IndexPad(index)[1], IndexPad(index)[2]>>

\* the token bonding accounts on chain
Bondings == {k \in ledger.accounts : Len(k) = 4}

\* the index taken as it stands, with no look at the chain
FirstFreeUnchecked(targetMint, indexToUse) == indexToUse

\* while (await getTokenBondingAccount()) { indexToUse++ }
RECURSIVE FirstFree(_, _)
FirstFree(targetMint, indexToUse) ==
    IF accountExists(tokenBondingKey(targetMint, indexToUse))
    THEN FirstFree(targetMint, indexToUse + 1)
    ELSE indexToUse

\* createMintInstructions(provider, authority, mint, decimals)
createMintInstructions(payer, authority, mint, decimals) ==
    <<[name |-> "createAccount", fromPubkey |-> payer,
       newAccountPubkey |-> mint],
      [name |-> "initMint", mint |-> mint, decimals |-> decimals,
       authority |-> authority]>>

\* if (!baseStorage) { .. }: the account, its authority, the signer and the
\* instructions that create it
BaseStorage(a, baseMint, tokenBonding, keypair) ==
    IF a.baseStorage # Null
    THEN [account |-> a.baseStorage, authority |-> Null, signers |-> <<>>,
          instructions |-> <<>>]
    ELSE [account |-> keypair,
          authority |-> <<"storage-authority", tokenBonding>>,
          signers |-> <<keypair>>,
          instructions |->
              <<[name |-> "createAccount", fromPubkey |-> Wallet,
                 newAccountPubkey |-> keypair],
                [name |-> "initAccount", mint |-> baseMint,
                 account |-> keypair,
                 owner |-> <<"storage-authority", tokenBonding>>]>>]

\* if (!xRoyalties) { .. }: the royalties account, the instruction that
\* creates its associated token account unless it was created above or
\* exists, and createdAccts with what the block records in it
RoyaltiesBlock(given, mint, ata, createdAccts, recorded) ==
    IF given # Null
    THEN [account |-> <<given>>, instructions |-> <<>>,
          createdAccts |-> createdAccts]
    ELSE IF ata \notin createdAccts /\ ~accountExists(ata)
    THEN [account |-> ata,
          instructions |->
              <<createAssociatedTokenAccount(mint, ata, Wallet, Wallet)>>,
          createdAccts |-> createdAccts \cup {recorded}]
    ELSE [account |-> ata, instructions |-> <<>>,
          createdAccts |-> createdAccts]

\* the arguments of initializeTokenBondingV0
InitializeTokenBondingV0Args(a, indexToUse, baseStorage) ==
    [index |-> indexToUse,
     buyBaseRoyaltyPercentage |->
         OrCurrent(percent(a.buyBaseRoyaltyPercentage), <<>>),
     buyTargetRoyaltyPercentage |->
         OrCurrent(percent(a.buyTargetRoyaltyPercentage), <<>>),
     sellBaseRoyaltyPercentage |->
         OrCurrent(percent(a.sellBaseRoyaltyPercentage), <<>>),
     sellTargetRoyaltyPercentage |->
         OrCurrent(percent(a.sellTargetRoyaltyPercentage), <<>>),
     tokenBondingAuthority |-> Wallet,
     baseStorageAuthority |-> baseStorage.authority,
     buyFrozen |-> FALSE]

\* the result, from the keys and the outcome of each block
CreateResult(a, baseMint, targetMint, indexToUse, baseStorage, buyTarget, sellTarget, buyBase, sellBase) ==
    [op |-> "createTokenBondingInstructions", args |-> a, err |-> NoError,
     output |-> [tokenBonding |-> tokenBondingKey(targetMint, indexToUse),
                 targetMint |-> targetMint,
                 buyBaseRoyalties |-> buyBase.account,
                 buyTargetRoyalties |-> buyTarget.account,
                 sellBaseRoyalties |-> sellBase.account,
                 sellTargetRoyalties |-> sellTarget.account,
                 baseStorage |-> baseStorage.account],
     instructions |->
         (IF a.targetMint = Null
          THEN createMintInstructions(Wallet,
                                      <<"target-authority", targetMint>>,
                                      targetMint, a.targetMintDecimals.v)
          ELSE <<>>)
         \o baseStorage.instructions \o buyTarget.instructions
         \o sellTarget.instructions \o buyBase.instructions
         \o sellBase.instructions
         \o <<[name |-> "initializeTokenBondingV0",
               args |-> InitializeTokenBondingV0Args(a, indexToUse,
                                                     baseStorage),
               accounts |->
                   [payer |-> Wallet, curve |-> a.curve,
                    tokenBonding |-> tokenBondingKey(targetMint, indexToUse),
                    baseMint |-> baseMint, targetMint |-> targetMint,
                    baseStorage |-> baseStorage.account,
                    buyBaseRoyalties |-> buyBase.account,
                    buyTargetRoyalties |-> buyTarget.account,
                    sellBaseRoyalties |-> sellBase.account,
                    sellTargetRoyalties |-> sellTarget.account]]>>,
     signers |-> (IF a.targetMint = Null THEN <<targetMint>> ELSE <<>>)
                 \o baseStorage.signers]

\* if (!sellBaseRoyalties) { .. }
CreateSellBase(a, baseMint, targetMint, indexToUse, baseStorage, buyTarget, sellTarget, buyBase) ==
    CreateResult(a, baseMint, targetMint, indexToUse, baseStorage, buyTarget,
                 sellTarget, buyBase,
                 RoyaltiesBlock(a.sellBaseRoyalties, baseMint,
                                AssociatedTokenAddress(baseMint, Wallet),
                                buyBase.createdAccts,
                                AssociatedTokenAddress(baseMint, Wallet)))

\* if (!buyBaseRoyalties) { .. }
CreateBuyBase(a, baseMint, targetMint, indexToUse, baseStorage, buyTarget, sellTarget) ==
    CreateSellBase(a, baseMint, targetMint, indexToUse, baseStorage,
                   buyTarget, sellTarget,
                   RoyaltiesBlock(a.buyBaseRoyalties, baseMint,
                                  AssociatedTokenAddress(baseMint, Wallet),
                                  sellTarget.createdAccts,
                                  AssociatedTokenAddress(baseMint, Wallet)))

\* if (!sellTargetRoyalties) { .. }: the block records buyTargetRoyalties
CreateSellTarget(a, baseMint, targetMint, indexToUse, baseStorage, buyTarget) ==
    CreateBuyBase(a, baseMint, targetMint, indexToUse, baseStorage,
                  buyTarget,
                  RoyaltiesBlock(a.sellTargetRoyalties, targetMint,
                                 AssociatedTokenAddress(targetMint, Wallet),
                                 buyTarget.createdAccts, buyTarget.account))

\* if (!buyTargetRoyalties) { .. }
CreateBuyTarget(a, baseMint, targetMint, indexToUse, baseStorage) ==
    CreateSellTarget(a, baseMint, targetMint, indexToUse, baseStorage,
                     RoyaltiesBlock(a.buyTargetRoyalties, targetMint,
                                    AssociatedTokenAddress(targetMint,
                                                           Wallet),
                                    {},
                                    AssociatedTokenAddress(targetMint,
                                                           Wallet)))

\* the base storage, whose key is generated after the mint's
CreateStorage(a, baseMint, targetMint, indexToUse) ==
    CreateBuyTarget(a, baseMint, targetMint, indexToUse,
                    BaseStorage(a, baseMint,
                                tokenBondingKey(targetMint, indexToUse),
                                IF a.targetMint = Null THEN Keypair(2)
                                ELSE Keypair(1)))

\* let indexToUse = index || 0; if (!index) { .. } else { .. }
CreateOnMints(a, baseMint, targetMint) ==
    CreateStorage(a, baseMint, targetMint,
                  IF ~TruthyInt(a.index) THEN FirstFree(targetMint, 0)
                  ELSE a.index.v)

createTokenBondingInstructionsResult(a) ==
    IF a.targetMint = Null
       /\ (a.sellTargetRoyalties # Null \/ a.buyTargetRoyalties # Null)
    THEN Thrown("createTokenBondingInstructions", a,
                "Cannot define target royalties if mint is not defined")
    ELSE IF a.targetMint = Null /\ ~TruthyInt(a.targetMintDecimals)
    THEN Thrown("createTokenBondingInstructions", a,
                "Cannot define mint without decimals ")
    ELSE CreateOnMints(a,
                       IF a.baseMint = NativeMint THEN ledger.wrappedSolMint
                       ELSE a.baseMint,
                       IF a.targetMint = Null THEN Keypair(1)
                       ELSE a.targetMint)

createTokenBondingInstructions(a) ==
    /\ Cardinality(Bondings) < MaxBondings
    /\ res' = createTokenBondingInstructionsResult(a)
    /\ UNCHANGED <<num, curves, tokenBondingAcct, ledger>>

\* the account an instruction creates
CreatedBy(ix) ==
    IF ix.name = "createAccount" THEN {KeypairAccount(ix.newAccountPubkey)}
    ELSE IF ix.name = "createAssociatedTokenAccount" THEN {ix.account}
    ELSE IF ix.name = "initializeTokenBondingV0"
    THEN {ix.accounts.tokenBonding}
    ELSE {}

\* the accounts a transaction creates
Created(instructions) ==
    UNION {CreatedBy(instructions[i]) : i \in 1..Len(instructions)}

\* sendInstructions on the result r of createTokenBondingInstructions: the
\* transaction fails as a whole when an account it creates is in use
SendCreate(r) ==
    IF r.err # NoError
    THEN /\ res' = [r EXCEPT !.op = "createTokenBonding"]
         /\ UNCHANGED ledger
    ELSE IF Created(r.instructions) \cap ledger.accounts # {}
    THEN /\ res' = Thrown("createTokenBonding", r.args, "Transaction failed")
         /\ UNCHANGED ledger
    ELSE /\ res' = [r EXCEPT !.op = "createTokenBonding"]
         /\ ledger' = [ledger EXCEPT
                           !.accounts = @ \cup Created(r.instructions)]

createTokenBonding(a) ==
    /\ Cardinality(Bondings) < MaxBondings
    /\ SendCreate(createTokenBondingInstructionsResult(a))
    /\ UNCHANGED <<num, curves, tokenBondingAcct>>

\* the arguments with the percentages r, the base mint, the target mint and
\* its decimals, the royalties account of the target mint, the base storage
\* and the index
CreateArg(r, baseMint, targetMint, targetMintDecimals, targetRoyalties, baseStorage, index) ==
    [curve |-> "curve", baseMint |-> baseMint, targetMint |-> targetMint,
     targetMintDecimals |-> targetMintDecimals,
     baseStorage |-> baseStorage,
     buyBaseRoyalties |-> Null, buyTargetRoyalties |-> targetRoyalties,
     sellBaseRoyalties |-> Null, sellTargetRoyalties |-> Null,
     buyBaseRoyaltyPercentage |-> PctArg(r[1]),
     buyTargetRoyaltyPercentage |-> PctArg(r[2]),
     sellBaseRoyaltyPercentage |-> PctArg(r[3]),
     sellTargetRoyaltyPercentage |-> PctArg(r[4]),
     index |-> index]

CreateIndexes == {NoInt, IntArg(0), IntArg(1), IntArg(2), IntArg(256)}

CreateDecimals == {NoInt, IntArg(0), IntArg(2)}

CreateArgs ==
    {CreateArg(<<0, 0, 0, 0>>, "base", "target", NoInt, Null, Null, i) :
         i \in CreateIndexes}
    \cup {CreateArg(<<0, 0, 0, 0>>, "base", Null, d, r, Null, NoInt) :
              d \in CreateDecimals, r \in {Null, "royalties"}}
    \cup {CreateArg(<<5, 0, 100, 50>>, NativeMint, "target", IntArg(2),
                    "royalties", "storage", NoInt)}

InitCreate ==
    /\ num = Undefined
    /\ curves = <<>>
    /\ tokenBondingAcct = PlainAcct("base")
    /\ ledger \in {Chain({}, 9, 9, 0), Chain(WalletAccounts, 9, 9, 0)}
    /\ res = NoCall

NextCreate ==
    \/ \E a \in CreateArgs : createTokenBondingInstructions(a)
    \/ \E a \in CreateArgs : createTokenBonding(a)

SpecCreate == InitCreate /\ [][NextCreate]_vars

-----------------------------------------------------------------------------
(* initializeSolStorageInstructions, initializeSolStorage and getState.    *)

\* this.state: declared with the class and assigned nowhere in it
ThisState == Undefined

\* PublicKey.findProgramAddress of the seeds "state", "sol-storage" and
\* "wrapped-sol-authority"
StateAddress == <<"state">>
SolStorageAddress == <<"sol-storage">>
WrappedSolAuthority == <<"wrapped-sol-authority">>

\* getState(): this.state when it is set, or else the program state account
\* fetched from the chain, null when there is none
getState ==
    IF ThisState.t # "undefined" THEN ThisState
    ELSE IF accountExists(StateAddress)
    THEN [t |-> "state", wrappedSolMint |-> ledger.wrappedSolMint]
    ELSE JsNull

\* the keys Keypair.generate() can return: any key not in use
FreshKeypairs ==
    {KeypairNames[i] : i \in {j \in 1..Len(KeypairNames) :
                                 ~accountExists(KeypairAccount(KeypairNames[j]))}}

\* the instructions that create the wrapped sol mint mintKeypair with its
\* metadata and hand it to the program
SolStorageInstructions(mintKeypair) ==
    <<[name |-> "createAccount", fromPubkey |-> Wallet,
       newAccountPubkey |-> mintKeypair],
      [name |-> "initMint", mint |-> mintKeypair, decimals |-> 9,
       authority |-> Wallet, freezeAuthority |-> WrappedSolAuthority],
      [name |-> "createMetadata", mint |-> mintKeypair,
       symbol |-> "twSOL", payer |-> Wallet],
      [name |-> "setAuthority", mint |-> mintKeypair,
       newAuthority |-> WrappedSolAuthority, kind |-> "MintTokens",
       authority |-> Wallet],
      [name |-> "initializeSolStorageV0",
       accounts |-> [state |-> StateAddress, payer |-> Wallet,
                     solStorage |-> SolStorageAddress,
                     mintAuthority |-> WrappedSolAuthority,
                     wrappedSolMint |-> mintKeypair]]>>

\* a call that builds the instructions whether or not the state exists
initializeSolStorageUnchecked(mintKeypair) ==
    [op |-> "initializeSolStorageInstructions", args |-> <<>>,
     err |-> NoError, instructions |-> SolStorageInstructions(mintKeypair),
     signers |-> <<mintKeypair>>]

\* initializeSolStorageInstructions(), mintKeypair being the key it
\* generates: {output: null, instructions, signers}
initializeSolStorageInstructionsResult(mintKeypair) ==
    IF getState.t # "null"
    THEN [op |-> "initializeSolStorageInstructions", args |-> <<>>,
          err |-> NoError, instructions |-> <<>>, signers |-> <<>>]
    ELSE [op |-> "initializeSolStorageInstructions", args |-> <<>>,
          err |-> NoError, instructions |-> SolStorageInstructions(mintKeypair),
          signers |-> <<mintKeypair>>]

initializeSolStorageInstructions ==
    /\ \E mintKeypair \in FreshKeypairs :
           res' = initializeSolStorageInstructionsResult(mintKeypair)
    /\ UNCHANGED <<num, curves, tokenBondingAcct, ledger>>

\* the accounts the transaction of initializeSolStorageInstructions creates
SolStorageCreated(mintKeypair) ==
    {KeypairAccount(mintKeypair), <<"metadata", mintKeypair>>, StateAddress,
     SolStorageAddress}

\* if (instructions.length > 0) { await this.sendInstructions(..) } on the
\* result r built with mintKeypair; accepted tells whether the cluster
\* takes the transaction, which it never does when an account the
\* transaction creates is in use
SendSolStorage(r, mintKeypair, accepted) ==
    IF Len(r.instructions) = 0
    THEN /\ res' = [r EXCEPT !.op = "initializeSolStorage"] @@ [sent |-> FALSE]
         /\ UNCHANGED ledger
    ELSE IF ~accepted \/ SolStorageCreated(mintKeypair) \cap ledger.accounts # {}
    THEN /\ res' = Thrown("initializeSolStorage", <<>>, "Transaction failed")
                       @@ [sent |-> TRUE]
         /\ UNCHANGED ledger
    ELSE /\ res' = [r EXCEPT !.op = "initializeSolStorage"] @@ [sent |-> TRUE]
         /\ ledger' = [ledger EXCEPT
                           !.accounts = @ \cup SolStorageCreated(mintKeypair),
                           !.wrappedSolMint = mintKeypair]

initializeSolStorage ==
    /\ \E mintKeypair \in FreshKeypairs, accepted \in BOOLEAN :
           SendSolStorage(initializeSolStorageInstructionsResult(mintKeypair),
                          mintKeypair, accepted)
    /\ UNCHANGED <<num, curves, tokenBondingAcct>>

\* chains on which nobody has initialised the sol storage, and one on which
\* it was done before
SolStorageChains ==
    {Chain({}, 9, 9, 0), Chain(WalletAccounts, 9, 9, 0),
     Chain(WalletAccounts \cup {tokenBondingKey("target", 0)}, 9, 9, 1000),
     Chain({KeypairAccount("keypair1")}, 9, 9, 0),
     Chain(SolStorageCreated("wsol"), 9, 9, 0)}

InitSolStorage ==
    /\ num = Undefined
    /\ curves = <<>>
    /\ tokenBondingAcct = PlainAcct("base")
    /\ ledger \in SolStorageChains
    /\ res = NoCall

NextSolStorage ==
    \/ initializeSolStorageInstructions
    \/ initializeSolStorage

SpecSolStorage == InitSolStorage /\ [][NextSolStorage]_vars

-----------------------------------------------------------------------------
(* humanReadablePercentage of the swap form: the royalty shown for a u32   *)
(* numerator.                                                              *)

\* the integer n for which n / 10^fractionDigits - x is nearest to zero,
\* the larger of two such n
FixedUnits(x, fractionDigits) ==
    BigDivMod(BigAdd(BigMul(RatNum(x), MulSmall(Pow10(fractionDigits), 2)),
                     RatDen(x)),
              MulSmall(RatDen(x), 2)).q

\* the digits ds of that integer, with zeros in front up to the units
LeadingZeros(ds, fractionDigits) ==
    IF Len(ds) > fractionDigits THEN ds
    ELSE Zeros(fractionDigits + 1 - Len(ds)) \o ds

\* the digits with the decimal point before the last fractionDigits
PointBefore(ds, fractionDigits) ==
    Chars(SubSeq(ds, 1, Len(ds) - fractionDigits)) \o <<".">>
        \o Chars(SubSeq(ds, Len(ds) - fractionDigits + 1, Len(ds)))

\* x.toFixed(fractionDigits) for a finite 0 <= x < 10^21 and
\* fractionDigits > 0
toFixed(x, fractionDigits) ==
    PointBefore(LeadingZeros(IF IsZero(x) THEN <<>>
                             ELSE BigDigits(FixedUnits(x, fractionDigits)),
                             fractionDigits),
                fractionDigits)

\* the percentage of a fraction, without the factor 100
humanReadableFraction(u32) ==
    IF ~IsZero(u32)
    THEN [t |-> "string", v |-> toFixed(FDiv(u32, FromBig(U32Max)), 2)]
    ELSE [t |-> "number", v |-> FZero]

\* humanReadablePercentage(u32): a string with two decimals, or the number
\* 0 for a numerator of 0
humanReadablePercentage(u32) ==
    IF ~IsZero(u32)
    THEN [t |-> "string",
          v |-> toFixed(FMul(FDiv(u32, FromBig(U32Max)), FromNat(100)), 2)]
    ELSE [t |-> "number", v |-> FZero]

PercentSteps == 19

\* u32 numerators: the ends of the range, the neighbours of the steps of the
\* second decimal, and a grid over the range
PercentNumerators ==
    {Nat2Big(n) : n \in {0, 1, 214748, 214749, 644245, 644246, 42949673,
                         429496729, 429496730, 1073741824, 2147483647}}
    \cup {BigSub(U32Max, Nat2Big(n)) :
              n \in {0, 1, 214748, 214749, 2147483647}}
    \cup {MulSmall(Nat2Big(204522252), k) : k \in 1..PercentSteps}

\* the function is applied to the numerator num, and another numerator is
\* given next (the form itself calls it for numerators above 0 only)
showPercentage ==
    /\ res' = [op |-> "humanReadablePercentage", args |-> num,
               shown |-> humanReadablePercentage(num.v)]
    /\ \E n \in PercentNumerators : num' = NumArg(FromBig(n))
    /\ UNCHANGED <<curves, tokenBondingAcct, ledger>>

InitPercent ==
    /\ \E n \in PercentNumerators : num = NumArg(FromBig(n))
    /\ curves = <<>>
    /\ tokenBondingAcct = PlainAcct("base")
    /\ ledger = NoChain
    /\ res = NoCall

NextPercent == showPercentage

SpecPercent == InitPercent /\ [][NextPercent]_vars

-----------------------------------------------------------------------------
(* ExponentialCurveConfig and the pricing curve made of it: the integral   *)
(* of the shape and the two directions of a buy.                           *)

\* a parameter left out takes its default
DefaultTo(x, d) == IF x.t = "undefined" THEN d ELSE x

\* the configuration of the converted c and b, or the error of a conversion
ConfigOf(c, b, pow, frac) ==
    [err |-> FirstErr(<<c.err, b.err>>),
     v |-> [c |-> c.v, b |-> b.v, pow |-> pow.v, frac |-> frac.v]]

\* a configuration whose c defaults to 2
ExponentialCurveConfigSteep(c, b, pow, frac) ==
    ConfigOf(toU128(DefaultTo(c, NumArg(FromNat(2)))),
             toU128(DefaultTo(b, NumArg(FZero))),
             DefaultTo(pow, IntArg(1)), DefaultTo(frac, IntArg(1)))

\* new ExponentialCurveConfig({c = 1, b = 0, pow = 1, frac = 1}): [err, v]
ExponentialCurveConfig(c, b, pow, frac) ==
    ConfigOf(toU128(DefaultTo(c, NumArg(FOne))),
             toU128(DefaultTo(b, NumArg(FZero))),
             DefaultTo(pow, IntArg(1)), DefaultTo(frac, IntArg(1)))

\* Power{c = 1, b = 0, pow = 1, frac = 1}: price = supply
LinearShape == [c |-> FixedOne, b |-> <<>>, pow |-> 1, frac |-> 1]

\* a^n in fixed point, for n >= 1
RECURSIVE FixedPow(_, _)
FixedPow(a, n) ==
    IF n = 1 THEN a ELSE BigDivMod(BigMul(FixedPow(a, n - 1), a), FixedOne).q

\* the area under c * S^pow + b between lo <= hi, for frac = 1:
\* c * (hi^(pow+1) - lo^(pow+1)) / (pow + 1) + b * (hi - lo)
PowerArea(shape, lo, hi) ==
    BigAdd(BigDivMod(BigMul(shape.c,
                            BigSub(FixedPow(hi, shape.pow + 1),
                                   FixedPow(lo, shape.pow + 1))),
                     MulSmall(FixedOne, shape.pow + 1)).q,
           BigDivMod(BigMul(shape.b, BigSub(hi, lo)), FixedOne).q)

\* an integral that forgets its direction
ShapeIntegralUnsigned(shape, fromSupply, toSupply) ==
    SignedArea(TRUE, PowerArea(shape, BigMin(fromSupply, toSupply),
                               BigMax(fromSupply, toSupply)))

\* CurveShape.integral(fromSupply, toSupply) of a Power shape, signed
ShapeIntegral(shape, fromSupply, toSupply) ==
    SignedArea(BigLeq(fromSupply, toSupply),
               PowerArea(shape, BigMin(fromSupply, toSupply),
                         BigMax(fromSupply, toSupply)))

\* the parameters of a configuration
ShapeArg(c, b, pow, frac) == [c |-> c, b |-> b, pow |-> pow, frac |-> frac]

ShapeArgs ==
    {ShapeArg(Undefined, Undefined, Undefined, Undefined),
     ShapeArg(NumArg(FromNat(2)), NumArg(FromNat(3)), IntArg(1), IntArg(1)),
     ShapeArg(BNArg(Nat2Big(5)), Undefined, IntArg(2), Undefined),
     ShapeArg(NumArg(Dec(5, 1)), NumArg(FOne), IntArg(0), IntArg(1)),
     ShapeArg(NumArg(Dec(25, 2)), NumArg(Dec(25, 2)), IntArg(1), IntArg(1))}

\* the configuration is built and the pricing curve made of it
newExponentialCurveConfig(a) ==
    /\ curves = <<>>
    /\ res' = [op |-> "ExponentialCurveConfig", args |-> a,
               err |-> ExponentialCurveConfig(a.c, a.b, a.pow, a.frac).err]
    /\ curves' = IF ExponentialCurveConfig(a.c, a.b, a.pow, a.frac).err # NoError
                 THEN curves
                 ELSE <<[curve |-> ExponentialCurveConfig(a.c, a.b, a.pow,
                                                          a.frac).v,
                         offset |-> 0]>>
    /\ UNCHANGED <<num, tokenBondingAcct, ledger>>

\* the supply after the amount num is minted
SupplyAfter == BigAdd(ledger.supply, ToFixed(num.v))

\* integral between the supply and the supply after the amount, up or down
integralOfShape(up) ==
    /\ curves # <<>>
    /\ res' = [op |-> "integral", err |-> NoError,
               fromSupply |-> IF up THEN ledger.supply ELSE SupplyAfter,
               toSupply |-> IF up THEN SupplyAfter ELSE ledger.supply,
               v |-> IF up
                     THEN ShapeIntegral(curves[1].curve, ledger.supply,
                                        SupplyAfter)
                     ELSE ShapeIntegral(curves[1].curve, SupplyAfter,
                                        ledger.supply)]
    /\ UNCHANGED <<num, curves, tokenBondingAcct, ledger>>

\* the outcome [err, v] of buyTargetAmount as a call of desiredTarget
PricedTarget(desiredTarget, out) ==
    [op |-> "buyTargetAmount", desiredTarget |-> desiredTarget,
     err |-> out.err, v |-> out.v]

\* curve.buyTargetAmount(num, buyBaseRoyaltyPercentage,
\* buyTargetRoyaltyPercentage) on the linear shape
priceTargetAmount ==
    /\ curves # <<>>
    /\ curves[1].curve = LinearShape
    /\ res.op \in {"ExponentialCurveConfig", "integral"}
    /\ res' = PricedTarget(num.v,
                  buyTargetAmount(ledger.supply, num.v,
                                  tokenBondingAcct.buyBaseRoyaltyPercentage,
                                  tokenBondingAcct.buyTargetRoyaltyPercentage))
    /\ UNCHANGED <<num, curves, tokenBondingAcct, ledger>>

\* curve.buyWithBaseAmount(baseIn, ..) with the same percentages, baseIn
\* being what buyTargetAmount has just returned
priceBaseAmount ==
    /\ res.op = "buyTargetAmount"
    /\ res.err = NoError
    /\ res' = [op |-> "buyWithBaseAmount", desiredTarget |-> res.desiredTarget,
               baseIn |-> res.v, err |-> NoError,
               v |-> buyWithBaseAmount(ledger.supply, res.v,
                         tokenBondingAcct.buyBaseRoyaltyPercentage,
                         tokenBondingAcct.buyTargetRoyaltyPercentage)]
    /\ UNCHANGED <<num, curves, tokenBondingAcct, ledger>>

PricingSupplies == {1, 1000}
PricingAmounts ==
    {FromNat(100), FromNat(1), FromNat(395), Dec(5, 1), Dec(1, 12),
     Dec(2, 12), Dec(123456789, 4)}
PricingRoyalties ==
    {<<0, 0, 0, 0>>, <<5, 0, 0, 0>>, <<0, 10, 0, 0>>, <<5, 10, 0, 0>>}

InitPricing ==
    /\ \E x \in PricingAmounts : num = NumArg(x)
    /\ curves = <<>>
    /\ \E r \in PricingRoyalties : tokenBondingAcct = RoyaltyAcct("base", r)
    /\ \E s \in PricingSupplies : ledger = Chain({}, 9, 9, s)
    /\ res = NoCall

NextPricing ==
    \/ \E a \in ShapeArgs : newExponentialCurveConfig(a)
    \/ \E up \in BOOLEAN : integralOfShape(up)
    \/ priceTargetAmount
    \/ priceBaseAmount

SpecPricing == InitPricing /\ [][NextPricing]_vars

-----------------------------------------------------------------------------
(* CurveHierarchy: the registered curves as the edges of a directed graph  *)
(* of mints, and the path between two mints.                               *)

MaxEdges == 3

HierarchyMints == {"mintA", "mintB", "mintC", "mintD"}

\* the curve between a base mint and a target mint
Edge(baseMint, targetMint) ==
    [curve |-> <<"curve", baseMint, targetMint>>, baseMint |-> baseMint,
     targetMint |-> targetMint]

\* the curves that are registered in some order; none has mintD at an end
HierarchyEdges ==
    {Edge("mintA", "mintB"), Edge("mintB", "mintC"), Edge("mintA", "mintC"),
     Edge("mintC", "mintB"), Edge("mintB", "mintA")}

\* a curve is registered after the ones already there
registerCurve(e) ==
    /\ Len(curves) < MaxEdges
    /\ \A i \in 1..Len(curves) : curves[i] # e
    /\ curves' = Append(curves, e)
    /\ res' = [op |-> "register", err |-> NoError, edge |-> e]
    /\ UNCHANGED <<num, tokenBondingAcct, ledger>>

\* the sequences of n different registered curves, by their positions
HopsOfLength(n) ==
    {p \in [1..n -> 1..Len(curves)] :
         \A i, j \in 1..n : i # j => p[i] # p[j]}

\* p leads from mintA to mintB: each hop starts where the one before ends
Leads(p, mintA, mintB) ==
    /\ curves[p[1]].baseMint = mintA
    /\ curves[p[Len(p)]].targetMint = mintB
    /\ \A i \in 1..(Len(p) - 1) :
           curves[p[i]].targetMint = curves[p[i + 1]].baseMint

Routes(mintA, mintB, n) == {p \in HopsOfLength(n) : Leads(p, mintA, mintB)}

\* p comes before q in the order of registration
Before(p, q) ==
    \/ p = q
    \/ \E i \in 1..Len(p) :
           /\ p[i] < q[i]
           /\ \A j \in 1..(i - 1) : p[j] = q[j]

\* the first of the routes of a length, in the order of registration
FirstRoute(routes) == CHOOSE p \in routes : \A q \in routes : Before(p, q)

\* the hop descriptors (curveRef, direction) of a route
Hops(p) ==
    [i \in 1..Len(p) |-> [curveRef |-> curves[p[i]].curve,
                          from |-> curves[p[i]].baseMint,
                          to |-> curves[p[i]].targetMint]]

\* the shortest route of at least n hops, or NoPathFound
RECURSIVE ShortestFromLength(_, _, _)
ShortestFromLength(mintA, mintB, n) ==
    IF n > Len(curves) THEN [err |-> "NoPathFound", hops |-> <<>>]
    ELSE IF Routes(mintA, mintB, n) # {}
    THEN [err |-> NoError, hops |-> Hops(FirstRoute(Routes(mintA, mintB, n)))]
    ELSE ShortestFromLength(mintA, mintB, n + 1)

\* a path that is empty when there is no route
PathOrEmpty(mintA, mintB) ==
    [ShortestFromLength(mintA, mintB, 1) EXCEPT !.err = NoError]

\* CurveHierarchy.path(mintA, mintB): [err, hops]
PathResult(mintA, mintB) == ShortestFromLength(mintA, mintB, 1)

path(mintA, mintB) ==
    /\ mintA # mintB
    /\ res' = [op |-> "path", mintA |-> mintA, mintB |-> mintB,
               err |-> PathResult(mintA, mintB).err,
               hops |-> PathResult(mintA, mintB).hops]
    /\ UNCHANGED <<num, curves, tokenBondingAcct, ledger>>

NextHierarchy ==
    \/ \E e \in HierarchyEdges : registerCurve(e)
    \/ \E mintA, mintB \in HierarchyMints : path(mintA, mintB)

SpecHierarchy == InitCurve /\ [][NextHierarchy]_vars

-----------------------------------------------------------------------------
(* createTemporaryWSolAccount called on its own.                           *)

\* what the caller of createTemporaryWSolAccount gets: the account and the
\* instructions, or the error thrown by toBN
TemporaryWSolResult(payer, owner, amount, tmp) ==
    IF tmp.err # NoError
    THEN [op |-> "createTemporaryWSolAccount", payer |-> payer,
          owner |-> owner, amount |-> amount, err |-> tmp.err,
          signer |-> Null, firstInstructions |-> <<>>,
          lastInstructions |-> <<>>]
    ELSE [op |-> "createTemporaryWSolAccount", payer |-> payer,
          owner |-> owner, amount |-> amount, err |-> NoError,
          signer |-> tmp.signer,
          firstInstructions |-> tmp.firstInstructions,
          lastInstructions |-> tmp.lastInstructions]

\* the call only reads the chain
callCreateTemporaryWSolAccount(payer, owner, amount) ==
    /\ res = NoCall
    /\ res' = TemporaryWSolResult(payer, owner, amount,
                  createTemporaryWSolAccount(payer, owner, amount))
    /\ UNCHANGED <<num, curves, tokenBondingAcct, ledger>>

\* the amounts of SOL asked for; the last is beyond what new BN(number) takes
WSolAmounts ==
    {FZero, FromNat(1), FromNat(395), FromNat(105000), Dec(5, 2),
     Dec(15, 1), Dec(1, 9), Dec(1, 10), Dec(123456789, 8), Dec(1, 1),
     FromNat(9007199), FromNat(10000000)}

WSolKeys == {Wallet, "given"}

NextWSol ==
    \E payer, owner \in WSolKeys : \E amount \in WSolAmounts :
        callCreateTemporaryWSolAccount(payer, owner, amount)

SpecWSol == InitTrade /\ [][NextWSol]_vars

----------------------------------------------------------------------------
(* Claims.                                                                 *)

\* floor(x * 10^12) for the decimal that x prints as (x finite, x >= 0)
DecimalFloor12(x) ==
    IF IsZero(x) THEN <<>>
    ELSE LET sh == Shortest(x)
             p == sh.n - Len(sh.digits) + Precision
             s == FromDigits(sh.digits)
         IN  IF p >= 0 THEN BigMul(s, Pow10(p))
             ELSE BigDivMod(s, Pow10(0 - p)).q

\* C5: toU128 converts every finite non-negative number num to the integer
\* floor(num * 10^12) (12 fractional digits kept, the rest cut off), and
\* returns a BN argument unchanged.
C5_ToU128IsFloor ==
    res.op = "toU128" =>
        IF num.t = "BN" THEN res.err = NoError /\ res.v = num.v
        ELSE IsFinite(num.v) =>
                 res.err = NoError /\ res.v = DecimalFloor12(num.v)

\* C6: the offsets of the stored entries are strictly increasing, and an
\* addCurve whose offset is not above the last stored offset fails and adds
\* nothing.
C6_OffsetsStrictlyIncreasing ==
    \A i \in 1..(Len(curves) - 1) : curves[i].offset < curves[i + 1].offset

\* C7: in every TimeCurveConfig with at least one entry the first entry has
\* offset 0, and addCurve on an empty configuration with a non-zero offset
\* throws "First time offset must be 0" and leaves the list empty.
C7_FirstOffsetZero ==
    /\ Len(curves) > 0 => curves[1].offset = 0
    /\ (res.op = "addCurve" /\ res.err = "First time offset must be 0")
           => (curves = <<>> /\ res.timeOffset # 0)
    /\ (res.op = "addCurve" /\ res.err = NoError /\ Len(curves) = 1)
           => res.timeOffset = 0

C7_Witness ==
    /\ res.op = "addCurve"
    /\ res.err = "First time offset must be 0"
    /\ curves = <<>>

----------------------------------------------------------------------------
(* Claims about buyInstructions and sellInstructions, stated on the call   *)
(* that res records, in exact arithmetic on naturals.                      *)

\* the buyV0 or sellV0 instruction among the instructions of res
TradeInstruction ==
    res.instructions[CHOOSE i \in 1..Len(res.instructions) :
                         res.instructions[i].name \in {"buyV0", "sellV0"}]

BoughtTarget ==
    /\ res.op = "buy"
    /\ res.err = NoError
    /\ Truthy(res.args.desiredTargetAmount)

\* an amount of tokens in base units of a mint of dec decimals, as the
\* fraction num / den: a BN is in base units already, a number is in tokens
UnitsNum(amount, dec) ==
    IF amount.t = "BN" THEN amount.v
    ELSE BigMul(RatNum(amount.v), Pow10(dec))
UnitsDen(amount) == IF amount.t = "BN" THEN BigOne ELSE RatDen(amount.v)

\* floor(amount / (1 - pct / 4294967295)) in base units
ExactNeeded(amount, dec, pct) ==
    BigDivMod(BigMul(UnitsNum(amount, dec), U32Max),
              BigMul(UnitsDen(amount), BigSub(U32Max, pct))).q

\* C1: the targetAmount of a buy with desiredTargetAmount is
\* desiredTarget / (1 - buyTargetRoyaltyPct) in base units of the target
\* mint, truncated, for every desired amount and royalty below 100%.
C1_TargetAmountIsFloor ==
    BoughtTarget =>
        TradeInstruction.args.buyTargetAmount.targetAmount
            = ExactNeeded(res.args.desiredTargetAmount, TargetDecimals,
                          tokenBondingAcct.buyTargetRoyaltyPercentage)

RawProceeds ==
    FromFixed(integral(BigSub(ledger.supply,
                              ToFixed(toNumber(res.args.targetAmount,
                                               TargetDecimals))),
                       ledger.supply).v)

\* C3: at a royalty of 0 the amounts are unchanged: the targetAmount of a
\* buy is the desired amount in base units, and the minimumPrice of a sell
\* is the one of the raw curve proceeds.
C3_ZeroRoyaltyUnchanged ==
    /\ (BoughtTarget /\ tokenBondingAcct.buyTargetRoyaltyPercentage = <<>>)
           => TradeInstruction.args.buyTargetAmount.targetAmount
                  = BigDivMod(UnitsNum(res.args.desiredTargetAmount,
                                       TargetDecimals),
                              UnitsDen(res.args.desiredTargetAmount)).q
    /\ (/\ res.op = "sell"
        /\ res.err = NoError
        /\ tokenBondingAcct.sellBaseRoyaltyPercentage = <<>>
        /\ tokenBondingAcct.sellTargetRoyaltyPercentage = <<>>)
           => TradeInstruction.args.minimumPrice
                  = NewBN(MinPrice(RawProceeds, res.args.slippage,
                                   BaseDecimals)).v

\* the price curve.buyTargetAmount quotes for the desired amount of res
Quote ==
    CurveAmount(toNumber(res.args.desiredTargetAmount, TargetDecimals)).v

\* (1 + slippage) * quote * 10^decimals as the fraction num / den
ExactMaxNum ==
    BigMul(BigMul(RatNum(Quote),
                  BigAdd(RatDen(res.args.slippage),
                         IF IsZero(res.args.slippage) THEN <<>>
                         ELSE RatNum(res.args.slippage))),
           Pow10(BaseDecimals))
ExactMaxDen == BigMul(RatDen(Quote), RatDen(res.args.slippage))

\* 2^50: the three roundings of the computation are within 2^(-50) of it
RoundingScale == Shl(BigOne, 50)

SuppliedOr(p, current) ==
    IF p.t = "undefined" THEN current ELSE IntPart(percent(p).v).n

\* C8: updateTokenBondingInstructions sends, for each of the four royalty
\* percentages, the encoding of the supplied value whenever one is supplied
\* (0 included), and the account's current percentage only when the
\* argument is omitted.
C8_SuppliedPercentageSent ==
    (res.op = "updateTokenBondingInstructions" /\ res.err = NoError) =>
        /\ res.instructions[1].args.buyBaseRoyaltyPercentage
               = SuppliedOr(res.args.buyBaseRoyaltyPercentage,
                            tokenBondingAcct.buyBaseRoyaltyPercentage)
        /\ res.instructions[1].args.buyTargetRoyaltyPercentage
               = SuppliedOr(res.args.buyTargetRoyaltyPercentage,
                            tokenBondingAcct.buyTargetRoyaltyPercentage)
        /\ res.instructions[1].args.sellBaseRoyaltyPercentage
               = SuppliedOr(res.args.sellBaseRoyaltyPercentage,
                            tokenBondingAcct.sellBaseRoyaltyPercentage)
        /\ res.instructions[1].args.sellTargetRoyaltyPercentage
               = SuppliedOr(res.args.sellTargetRoyaltyPercentage,
                            tokenBondingAcct.sellTargetRoyaltyPercentage)

\* the call created a mint of the given decimals and signs with its key
MintCreated(decimals) ==
    /\ res.err = NoError
    /\ \E i \in 1..Len(res.instructions) :
           /\ res.instructions[i].name = "initMint"
           /\ res.instructions[i].mint = res.output.targetMint
           /\ res.instructions[i].decimals = decimals
    /\ \E i \in 1..Len(res.signers) : res.signers[i] = res.output.targetMint

\* C9: without a targetMint, createTokenBondingInstructions creates a mint
\* with targetMintDecimals decimals for every targetMintDecimals from 0
\* upward and adds the mint keypair to the signers; it throws only when
\* targetMintDecimals is not given or a target royalties account is given.
C9_MintCreatedForAnyDecimals ==
    (res.op = "createTokenBondingInstructions" /\ res.args.targetMint = Null)
    => IF /\ res.args.targetMintDecimals.t = "int"
          /\ res.args.buyTargetRoyalties = Null
          /\ res.args.sellTargetRoyalties = Null
       THEN MintCreated(res.args.targetMintDecimals.v)
       ELSE res.err # NoError

\* the index sent in initializeTokenBondingV0
UsedIndex == res.instructions[Len(res.instructions)].args.index

\* C10: called without an index, createTokenBondingInstructions uses the
\* smallest index >= 0 whose token bonding account does not exist, so the
\* returned tokenBonding is not an existing account; a non-zero index is
\* used as given.
C10_IndexIsFirstFree ==
    (res.op = "createTokenBondingInstructions" /\ res.err = NoError) =>
        /\ res.output.tokenBonding
               = tokenBondingKey(res.output.targetMint, UsedIndex)
        /\ IF TruthyInt(res.args.index) THEN UsedIndex = res.args.index.v
           ELSE /\ UsedIndex >= 0
                /\ \A j \in 0..(UsedIndex - 1) :
                       accountExists(tokenBondingKey(res.output.targetMint,
                                                     j))
                /\ ~accountExists(res.output.tokenBonding)

\* a call without an index that had to skip a taken index
C10_Witness ==
    /\ res.op = "createTokenBondingInstructions"
    /\ res.err = NoError
    /\ ~TruthyInt(res.args.index)
    /\ UsedIndex > 0

\* C11: every buyV0 built by buyInstructions has exactly one of
\* buyTargetAmount and buyWithBase non-null, with root estimates; a call
\* that gives neither amount, or both, builds no buy instruction.
C11_ExactlyOneBuyKind ==
    (res.op = "buy" /\ res.err = NoError) =>
        /\ (TradeInstruction.args.buyTargetAmount.t = "object")
               # (TradeInstruction.args.buyWithBase.t = "object")
        /\ TradeInstruction.args.rootEstimates.t = "array"

\* the estimates as toU128 converts them one by one
EachToU128(estimates) ==
    [i \in 1..Len(estimates) |-> toU128(NumArg(estimates[i])).v]

\* a buy that was built for a desired target amount only
TargetOnlyBuy ==
    /\ res.op = "buy"
    /\ res.err = NoError
    /\ Truthy(res.args.desiredTargetAmount)
    /\ ~Truthy(res.args.baseAmount)

\* a buy that was built for a base amount only
BaseOnlyBuy ==
    /\ res.op = "buy"
    /\ res.err = NoError
    /\ ~Truthy(res.args.desiredTargetAmount)
    /\ Truthy(res.args.baseAmount)

\* C12: the root estimates of a buy instruction are the sequence the curve
\* returns for the same amount and royalty percentage
\* (buyTargetAmountRootEstimates for a target amount,
\* buyWithBaseRootEstimates for a base amount), in the same order and
\* length, each converted with toU128.
C12_RootEstimatesAsReturned ==
    /\ TargetOnlyBuy =>
           TradeInstruction.args.rootEstimates.v
               = EachToU128(buyTargetAmountRootEstimates(ledger.supply,
                     toNumber(res.args.desiredTargetAmount, TargetDecimals),
                     tokenBondingAcct.buyTargetRoyaltyPercentage).v)
    /\ BaseOnlyBuy =>
           TradeInstruction.args.rootEstimates.v
               = EachToU128(buyWithBaseRootEstimates(ledger.supply,
                     toNumber(res.args.baseAmount, BaseDecimals),
                     tokenBondingAcct.buyBaseRoyaltyPercentage))

\* a buy for a base amount that carries several estimates
C12_Witness ==
    /\ BaseOnlyBuy
    /\ Len(TradeInstruction.args.rootEstimates.v) > 1

\* C13: sellInstructions on a bonding whose sellFrozen flag is set throws
\* "Sell is frozen on this bonding curve" and returns no instructions and
\* no signers, whatever the other arguments are.
C13_SellFrozenThrows ==
    (res.op = "sell" /\ tokenBondingAcct.sellFrozen) =>
        /\ res.err = "Sell is frozen on this bonding curve"
        /\ res.instructions = <<>>
        /\ res.signers = <<>>

C13_Witness ==
    /\ res.op = "sell"
    /\ tokenBondingAcct.sellFrozen
    /\ res.err = "Sell is frozen on this bonding curve"

\* C14: an update of an account that has no authority throws "Cannot update
\* a token bonding account that has no authority" and builds no
\* instruction; once an update has set the authority to null, every later
\* update fails this way and leaves the account as it is.
C14_NoAuthorityNoUpdate ==
    [][tokenBondingAcct.authority = Null =>
          /\ res'.err
                = "Cannot update a token bonding account that has no authority"
          /\ res'.instructions = <<>>
          /\ tokenBondingAcct' = tokenBondingAcct]_vars

\* an update that failed on an account whose authority an earlier update
\* had set to null
C14_Witness ==
    /\ tokenBondingAcct.authority = Null
    /\ res.op \in {"updateTokenBondingInstructions", "updateTokenBonding"}
    /\ res.err = "Cannot update a token bonding account that has no authority"

\* C15: sol storage is initialised once: whenever the program state account
\* exists, initializeSolStorageInstructions returns no instructions and no
\* signers and initializeSolStorage sends no transaction, so every call
\* after a successful initialisation leaves the chain as it is.
C15_SolStorageInitialisedOnce ==
    [][accountExists(StateAddress) =>
          /\ res'.err = NoError
          /\ res'.instructions = <<>>
          /\ res'.signers = <<>>
          /\ (res'.op = "initializeSolStorage" => ~res'.sent)
          /\ ledger' = ledger]_vars

\* a call of initializeSolStorage that sent nothing, after a call of this
\* behaviour has initialised the storage with a generated mint
C15_Witness ==
    /\ accountExists(StateAddress)
    /\ ledger.wrappedSolMint # "wsol"
    /\ res.op = "initializeSolStorage"
    /\ ~res.sent

\* the percentage a displayed value denotes, in hundredths of a percent
ShownHundredths(shown) ==
    IF shown.t = "number" THEN FixedUnits(shown.v, 2)
    ELSE FromDigits([i \in 1..Len(SelectSeq(shown.v, IsDigitChar)) |->
                        DigitOf(SelectSeq(shown.v, IsDigitChar)[i])])

\* the numerator of a render r
ShownNumerator(r) == IntPart(r.args.v).n

\* |a - b| of two naturals
BigDistance(a, b) == IF BigLeq(a, b) THEN BigSub(b, a) ELSE BigSub(a, b)

\* the value displayed by r is n / 4294967295 * 100, to the two decimals
\* shown: no hundredth is nearer to it
ShownIsPercentage(r) ==
    BigLeq(MulSmall(BigDistance(BigMul(ShownHundredths(r.shown), U32Max),
                                MulSmall(ShownNumerator(r), 10000)), 2),
           U32Max)

\* 0 is shown as 0 and 4294967295 as 100
ShownEnds(r) ==
    /\ ShownNumerator(r) = <<>> => ShownHundredths(r.shown) = <<>>
    /\ ShownNumerator(r) = U32Max
           => ShownHundredths(r.shown) = Nat2Big(10000)

\* of the renders r1 and r2, the larger numerator is not shown smaller
ShownInOrder(r1, r2) ==
    BigLeq(ShownNumerator(r1), ShownNumerator(r2))
        => BigLeq(ShownHundredths(r1.shown), ShownHundredths(r2.shown))

\* C16: the percentage shown for a u32 numerator n is n / 4294967295 * 100
\* (to the two decimals displayed), 0 for 0 and 100 for 4294967295, and of
\* two numerators the larger is never shown a smaller percentage.
C16_PercentageMonotonic ==
    [][/\ ShownIsPercentage(res')
       /\ ShownEnds(res')
       /\ res.op = "humanReadablePercentage" => ShownInOrder(res, res')]_vars

\* the largest numerator shown as 100.00 after a smaller one was shown
C16_Witness ==
    /\ res.op = "humanReadablePercentage"
    /\ ShownNumerator(res) = U32Max
    /\ res.shown.v = <<"1", "0", "0", ".", "0", "0">>

\* the offsets of the entries, in order
Offsets == [i \in 1..Len(curves) |-> curves[i].offset]

\* C17: a time-composite curve selects, for the elapsed time t, the last
\* entry whose offset is at most t, and exactly one entry for every t >= 0;
\* with the offsets [0, 100, 200] it selects entry 0 for t = 50, entry 1
\* for t = 150 and entry 2 for t = 250.
C17_LastStartedEntrySelected ==
    (res.op = "activeShape" /\ Len(curves) > 0) =>
        /\ res.index \in 0..(Len(curves) - 1)
        /\ curves[res.index + 1].offset <= res.elapsed
        /\ \A j \in (res.index + 2)..Len(curves) :
               curves[j].offset > res.elapsed
        /\ Offsets = <<0, 100, 200>> =>
               /\ res.elapsed = 50 => res.index = 0
               /\ res.elapsed = 150 => res.index = 1
               /\ res.elapsed = 250 => res.index = 2

\* the selection of entry 1 of the offsets [0, 100, 200] at t = 150
C17_Witness ==
    /\ res.op = "activeShape"
    /\ Offsets = <<0, 100, 200>>
    /\ res.elapsed = 150
    /\ res.index = 1

-----------------------------------------------------------------------------
(* Claims about the pricing curve.                                         *)

\* a supply of n whole tokens
WholeSupply(n) == BigMul(Nat2Big(n), FixedOne)

\* no royalty on a buy
NoBuyRoyalty ==
    /\ tokenBondingAcct.buyBaseRoyaltyPercentage = <<>>
    /\ tokenBondingAcct.buyTargetRoyaltyPercentage = <<>>

\* C18: the ExponentialCurveConfig defaults are the Power curve c = 1,
\* b = 0, pow = 1, frac = 1, and on that curve, at a supply of 1000 and
\* royalties of 0%, buyTargetAmount(100) is (1100^2 - 1000^2) / 2 = 105000.
C18_LinearQuote ==
    /\ (res.op = "ExponentialCurveConfig"
           /\ res.args = ShapeArg(Undefined, Undefined, Undefined, Undefined))
          => (res.err = NoError /\ curves[1].curve = LinearShape)
    /\ (res.op = "buyTargetAmount" /\ res.desiredTarget = FromNat(100)
           /\ ledger.supply = WholeSupply(1000) /\ NoBuyRoyalty)
          => (res.err = NoError /\ res.v = FromNat(105000))

C18_Witness ==
    /\ res.op = "buyTargetAmount"
    /\ res.desiredTarget = FromNat(100)
    /\ ledger.supply = WholeSupply(1000)
    /\ NoBuyRoyalty
    /\ res.v = FromNat(105000)

\* |v - x| <= 10^-12 for two numbers v, x >= 0
WithinUnit(v, x) ==
    BigLeq(BigMul(BigDistance(BigMul(RatNum(v), RatDen(x)),
                              BigMul(RatNum(x), RatDen(v))), FixedOne),
           BigMul(RatDen(v), RatDen(x)))

\* C19: buyWithBaseAmount applied to buyTargetAmount(x), with the same
\* royalty percentages, returns a value within one fixed-point unit
\* (10^-12) of x.
C19_RoundTripWithinUnit ==
    res.op = "buyWithBaseAmount" => WithinUnit(res.v, res.desiredTarget)

\* the opposite of a signed area
Opposite(a) == [s |-> IF a.v = <<>> THEN 1 ELSE 0 - a.s, v |-> a.v]

SignedLeq(a, b) ==
    IF a.s # b.s THEN a.s < b.s
    ELSE IF a.s = 1 THEN BigLeq(a.v, b.v) ELSE BigLeq(b.v, a.v)
SignedLt(a, b) == SignedLeq(a, b) /\ a # b

\* the supply points an integral of the inputs can end at
EndPoints ==
    {ledger.supply} \cup {BigAdd(ledger.supply, ToFixed(x)) : x \in PricingAmounts}

\* the coefficients c and b of the shape are positive
PositiveShape == curves[1].curve.c # <<>> /\ curves[1].curve.b # <<>>

-----------------------------------------------------------------------------
(* Claims about the hierarchy of curves.                                   *)

\* the hops lead from mintA to mintB over registered curves, in the order
\* of traversal
InTraversalOrder(hops, mintA, mintB) ==
    /\ hops # <<>>
    /\ hops[1].from = mintA
    /\ hops[Len(hops)].to = mintB
    /\ \A i \in 1..(Len(hops) - 1) : hops[i].to = hops[i + 1].from
    /\ \A i \in 1..Len(hops) :
           \E j \in 1..Len(curves) :
               /\ curves[j].curve = hops[i].curveRef
               /\ curves[j].baseMint = hops[i].from
               /\ curves[j].targetMint = hops[i].to

\* the mints that registered curves reach from the mints of a set
Reached(mints) ==
    mints \cup {curves[j].targetMint :
                    j \in {i \in 1..Len(curves) : curves[i].baseMint \in mints}}

\* mintB is reached from mintA over registered curves
Connected(mintA, mintB) ==
    mintB \in Reached(Reached(Reached(Reached({mintA}))))

\* C22: with curves registered for (mintA to mintB) and (mintB to mintC),
\* path(mintA, mintC) is the two hops through mintB in traversal order,
\* and a path to a mint with no registered edge fails with NoPathFound;
\* no path is empty or partial.
C22_PathOrNoPathFound ==
    res.op = "path" =>
        /\ res.err \in {NoError, "NoPathFound"}
        /\ res.err = NoError =>
               InTraversalOrder(res.hops, res.mintA, res.mintB)
        /\ res.err = "NoPathFound" =>
               (res.hops = <<>> /\ ~Connected(res.mintA, res.mintB))
        /\ res.mintB = "mintD" => res.err = "NoPathFound"
        /\ (curves = <<Edge("mintA", "mintB"), Edge("mintB", "mintC")>>
               /\ res.mintA = "mintA" /\ res.mintB = "mintC")
              => res.hops = <<[curveRef |-> Edge("mintA", "mintB").curve,
                               from |-> "mintA", to |-> "mintB"],
                              [curveRef |-> Edge("mintB", "mintC").curve,
                               from |-> "mintB", to |-> "mintC"]>>

\* the two-hop path of the scenario
C22_Witness ==
    /\ res.op = "path"
    /\ curves = <<Edge("mintA", "mintB"), Edge("mintB", "mintC")>>
    /\ res.mintA = "mintA"
    /\ res.mintB = "mintC"
    /\ Len(res.hops) = 2

-----------------------------------------------------------------------------
(* Claims about the temporary wrapped SOL account.                         *)

\* the units of wrapped SOL that toBN gives for the amount asked for
RequestedUnits(r) ==
    toBN(NumArg(r.amount), ledger.decimals[ledger.wrappedSolMint]).v

\* the first instructions create the account for the owner and wrap one
\* unit more than asked for into it
WrapsOneMore(r) ==
    /\ Len(r.firstInstructions) = 3
    /\ r.firstInstructions[1].name = "createAccount"
    /\ r.firstInstructions[1].newAccountPubkey = r.signer
    /\ r.firstInstructions[2].name = "initAccount"
    /\ r.firstInstructions[2].account = r.signer
    /\ r.firstInstructions[2].mint = ledger.wrappedSolMint
    /\ r.firstInstructions[3].name = "buyWrappedSolV0"
    /\ r.firstInstructions[3].destination = r.signer
    /\ r.firstInstructions[3].args.amount
           = BigAdd(RequestedUnits(r), BigOne)
    /\ BigLt(RequestedUnits(r), r.firstInstructions[3].args.amount)

\* the last instructions sell all of the account's wrapped SOL and then
\* close the account to the owner
SellsAllThenCloses(r) ==
    /\ Len(r.lastInstructions) = 2
    /\ r.lastInstructions[1].name = "sellWrappedSolV0"
    /\ r.lastInstructions[1].args.all
    /\ r.lastInstructions[1].source = r.signer
    /\ r.lastInstructions[2].name = "closeAccount"
    /\ r.lastInstructions[2].account = r.signer
    /\ r.lastInstructions[2].destination = r.owner

\* C23: createTemporaryWSolAccount for an amount A wraps toBN(A) + 1 units
\* of wrapped SOL into the new account, and its closing instructions first
\* sell all wrapped SOL of that account and then close the account to the
\* owner.
C23_WrapsOneMoreSellsThenCloses ==
    (res.op = "createTemporaryWSolAccount" /\ res.err = NoError) =>
        (WrapsOneMore(res) /\ SellsAllThenCloses(res))

\* a call for a fraction of a SOL, by an owner who is not the payer
C23_Witness ==
    /\ res.op = "createTemporaryWSolAccount"
    /\ res.err = NoError
    /\ res.amount = Dec(15, 1)
    /\ res.owner # res.payer
    /\ res.firstInstructions[3].args.amount = Nat2Big(1500000001)
    /\ res.lastInstructions[2].name = "closeAccount"

====
